---------------------------- MODULE Spec2Model ----------------------------
(***************************************************************************)
(* Model of the finder package of vtk (internal/finder): the gitignore-    *)
(* aware tree search Find, the symbol search FindSymbols, the binary       *)
(* detector IsBinaryFile and the glob operations, run over a small file    *)
(* tree.                                                                   *)
(*                                                                         *)
(* Bytes are integers 0..255.  A file's content is a sequence of runs      *)
(* <<byte, count>> (run-length encoded), so that contents longer than the  *)
(* 512-byte binary prefix or the 64 KiB scanner token limit stay small in  *)
(* the state; every operator computes on the bytes the runs stand for.     *)
(* A name is a sequence of bytes, a path a sequence of names relative to   *)
(* the root (<<>> is the root itself).                                     *)
(***************************************************************************)
EXTENDS Integers, Sequences, FiniteSets, TLC

----------------------------------------------------------------------------
(* Bytes and byte strings *)

NUL == 0
NL == 10
CR == 13
SP == 32
SLASH == 47
DOT == 46
STAR == 42
BANG == 33
HASH == 35
LBRACK == 91
RBRACK == 93

\* The characters the model's texts are written with, and their byte values.
Lowers == <<"a","b","c","d","e","f","g","h","i","j","k","l","m",
            "n","o","p","q","r","s","t","u","v","w","x","y","z">>
Uppers == <<"A","B","C","D","E","F","G","H","I","J","K","L","M",
            "N","O","P","Q","R","S","T","U","V","W","X","Y","Z">>
Puncts == [c \in {" ","!","#","(",")","*","-",".","/","0","2",":","=","[","]","_","{","}"} |->
     CASE c = " " -> 32  [] c = "!" -> 33  [] c = "#" -> 35  [] c = "(" -> 40
       [] c = ")" -> 41  [] c = "*" -> 42  [] c = "." -> 46  [] c = "/" -> 47
       [] c = "-" -> 45  [] c = "0" -> 48  [] c = "2" -> 50
       [] c = ":" -> 58  [] c = "=" -> 61  [] c = "[" -> 91  [] c = "]" -> 93  [] c = "_" -> 95
       [] c = "{" -> 123 [] c = "}" -> 125]
Code ==
  [c \in {Lowers[i] : i \in 1..26} \cup {Uppers[i] : i \in 1..26} \cup DOMAIN Puncts |->
     IF c \in DOMAIN Puncts THEN Puncts[c]
     ELSE IF \E i \in 1..26 : Lowers[i] = c
          THEN 96 + (CHOOSE i \in 1..26 : Lowers[i] = c)
          ELSE 64 + (CHOOSE i \in 1..26 : Uppers[i] = c)]

\* The byte string written with the characters cs.
B(cs) == [i \in 1..Len(cs) |-> Code[cs[i]]]

Min(a, b) == IF a <= b THEN a ELSE b

\* The least element of a non-empty set of integers.
Least(S) == CHOOSE k \in S : \A m \in S : k <= m

\* Index (1-based) of the first occurrence of sub in s, 0 when there is none
\* (bytes.Index(s, sub) + 1).
IndexOf(s, sub) ==
  LET at == {k \in 1..(Len(s) - Len(sub) + 1) :
               \A j \in 1..Len(sub) : s[k + j - 1] = sub[j]}
  IN IF at = {} THEN 0 ELSE Least(at)

----------------------------------------------------------------------------
(* File contents as runs *)

\* The content holding exactly the bytes bs.
Text(bs) == [i \in 1..Len(bs) |-> <<bs[i], 1>>]

\* n copies of byte b.
Fill(b, n) == <<<<b, n>>>>

\* The k-th least element of a set of integers.
Nth(S, k) == CHOOSE i \in S : Cardinality({j \in S : j <= i}) = k

\* The run that starts at byte i of bs and ends before byte j.
RunOf(bs, i, j) == <<bs[i], j - i>>

\* The runs of bs, starts being the positions at which a run starts.
RunsAt(bs, starts, n) ==
  [k \in 1..n |-> RunOf(bs, Nth(starts, k), Nth(starts \cup {Len(bs) + 1}, k + 1))]

RunsFrom(bs, starts) == RunsAt(bs, starts, Cardinality(starts))

\* The content holding exactly the bytes bs, equal neighbours in one run.
Runs(bs) == RunsFrom(bs, {i \in 1..Len(bs) : i = 1 \/ bs[i] # bs[i - 1]})

RECURSIVE RunsLen(_)
RunsLen(c) == IF c = <<>> THEN 0 ELSE c[1][2] + RunsLen(Tail(c))

RECURSIVE Expand(_)
Expand(c) ==
  IF c = <<>> THEN <<>> ELSE [k \in 1..c[1][2] |-> c[1][1]] \o Expand(Tail(c))

\* The pieces of c between newline bytes, the last piece included even when
\* empty (bytes.Split(content, "\n")); each piece is again a sequence of runs.
RECURSIVE SplitRuns(_, _, _, _)
SplitRuns(c, i, cur, acc) ==
  IF i > Len(c) THEN Append(acc, cur)
  ELSE SplitRuns(c, i + 1,
                 IF c[i][1] = NL THEN <<>> ELSE Append(cur, c[i]),
                 IF c[i][1] = NL
                 THEN Append(acc, cur) \o [k \in 1..(c[i][2] - 1) |-> <<>>]
                 ELSE acc)

\* The pieces without the last one when it is empty, so that the newline at
\* the end of a content is lost when its pieces are joined again, against
\* which C13_RoundTripOnTextWithoutR is checked.
SplitNLDroppingLast(c) ==
  LET ps == SplitRuns(c, 1, <<>>, <<>>)
  IN IF ps[Len(ps)] = <<>> THEN SubSeq(ps, 1, Len(ps) - 1) ELSE ps

SplitNL(c) == SplitRuns(c, 1, <<>>, <<>>)

----------------------------------------------------------------------------
(* regexp: the fragment of Go's syntax the callers' patterns are drawn from: *)
(* literal bytes and bracket classes [..] without ranges or negation.  A     *)
(* compiled pattern is a sequence of byte sets, one per position.            *)

\* Least j > i + 1 with p[j] = "]", 0 when the class is never closed.
ClassEnd(p, i) ==
  LET js == {j \in (i + 2)..Len(p) : p[j] = RBRACK}
  IN IF js = {} THEN 0 ELSE Least(js)

\* Compile from position i on; j is where the class opened at i closes.
RECURSIVE CompileFrom(_, _, _)
CompileClass(p, i, acc, j) ==
  IF j = 0 THEN [ok |-> FALSE, atoms |-> <<>>]      \* missing closing ]
  ELSE CompileFrom(p, j + 1, Append(acc, {p[k] : k \in (i + 1)..(j - 1)}))

CompileFrom(p, i, acc) ==
  IF i > Len(p) THEN [ok |-> TRUE, atoms |-> acc]
  ELSE IF p[i] = LBRACK THEN CompileClass(p, i, acc, ClassEnd(p, i))
  ELSE CompileFrom(p, i + 1, Append(acc, {p[i]}))

\* regexp.Compile(pattern)
Compile(p) == CompileFrom(p, 1, <<>>)

\* The 1-based positions of line at which the compiled pattern matches.
MatchPositions(atoms, line) ==
  {k \in 1..(Len(line) - Len(atoms) + 1) :
     \A j \in 1..Len(atoms) : line[k + j - 1] \in atoms[j]}

\* re.MatchString(line)
MatchString(atoms, line) == MatchPositions(atoms, line) # {}

\* re.FindStringIndex(line): <<start>> of the leftmost match (0-based), or <<>>.
FindStringIndex(atoms, line) ==
  LET ks == MatchPositions(atoms, line)
  IN IF ks = {} THEN <<>> ELSE <<Least(ks) - 1>>

----------------------------------------------------------------------------
(* The file tree *)

RootPath == <<>>
GitignoreName == B(<<".","g","i","t","i","g","n","o","r","e">>)
GitignorePath == <<GitignoreName>>
ATxt == <<B(<<"a",".","t","x","t">>)>>
DDir == <<B(<<"d">>)>>
DKTxt == <<B(<<"d">>), B(<<"k",".","t","x","t">>)>>
DSGo == <<B(<<"d">>), B(<<"s",".","g","o">>)>>
MPy == <<B(<<"m",".","p","y">>)>>

\* The paths of the tree (its shape is fixed; what each node holds varies).
Tree == {RootPath, GitignorePath, ATxt, DDir, DKTxt, DSGo, MPy}
FilePaths == {GitignorePath, ATxt, DKTxt, DSGo, MPy}

Parent(p) == SubSeq(p, 1, Len(p) - 1)
Base(p) == p[Len(p)]
IsUnder(p, d) == Len(p) > Len(d) /\ SubSeq(p, 1, Len(d)) = d

\* a < b in byte-wise lexical order (sort.Strings in readDirNames).
RECURSIVE NameLess(_, _)
NameLess(a, b) ==
  IF b = <<>> THEN FALSE
  ELSE IF a = <<>> THEN TRUE
  ELSE IF a[1] # b[1] THEN a[1] < b[1]
  ELSE NameLess(Tail(a), Tail(b))

RECURSIVE SortNames(_)
SortNames(S) ==
  IF S = {} THEN <<>>
  ELSE LET m == CHOOSE x \in S : \A y \in S \ {x} : NameLess(x, y)
       IN <<m>> \o SortNames(S \ {m})

----------------------------------------------------------------------------
(* go-gitignore, for the rule lines the model's ignore files are written   *)
(* with: an optional "!", an optional leading "/", one path component in   *)
(* which a star stands for any run of non-slash bytes, and an optional     *)
(* trailing "/".  The library turns such a line into a regular expression  *)
(* over the root-relative path: an optional prefix ending in "/" (absent   *)
(* or only "/" when the line starts with "/"), the component, and then     *)
(* either end of path or "/" and anything; when the line ends in "/", the  *)
(* "/" after the component is required.  A rule is kept here as the parts  *)
(* of that expression.                                                     *)

RECURSIVE TrimLeft(_, _)
TrimLeft(s, b) == IF s # <<>> /\ s[1] = b THEN TrimLeft(Tail(s), b) ELSE s

RECURSIVE TrimRight(_, _)
TrimRight(s, b) ==
  IF s # <<>> /\ s[Len(s)] = b THEN TrimRight(SubSeq(s, 1, Len(s) - 1), b) ELSE s

\* The expression for a line without its "!" and its trailing "/": a leading
\* "/" anchors it at the root.
AnchoredRule(negate, dirOnly, line) ==
  [negate |-> negate, dirOnly |-> dirOnly,
   anchored |-> line # <<>> /\ line[1] = SLASH,
   core |-> IF line # <<>> /\ line[1] = SLASH THEN Tail(line) ELSE line]

\* A trailing "/" selects the expression that requires a "/" after the component.
SuffixedRule(negate, line) ==
  AnchoredRule(negate, line # <<>> /\ line[Len(line)] = SLASH,
               IF line # <<>> /\ line[Len(line)] = SLASH
               THEN SubSeq(line, 1, Len(line) - 1) ELSE line)

\* A "#" or "!" left at the start of the line is dropped.
UnescapedRule(negate, line) ==
  SuffixedRule(negate, IF line # <<>> /\ line[1] \in {HASH, BANG} THEN Tail(line) ELSE line)

\* The trimmed line: empty lines give no pattern, a leading "!" negates.
TrimmedRule(line) ==
  IF line = <<>> THEN <<>>
  ELSE <<UnescapedRule(line[1] = BANG, IF line[1] = BANG THEN Tail(line) ELSE line)>>

\* The line without carriage returns: comments give no pattern.
CommentOrRule(line) ==
  IF line # <<>> /\ line[1] = HASH THEN <<>>
  ELSE TrimmedRule(TrimLeft(TrimRight(line, SP), SP))

\* getPatternFromLine: <<>> when the line yields no pattern, else <<rule>>.
getPatternFromLine(raw) == CommentOrRule(TrimRight(raw, CR))

RECURSIVE PatternsOf(_)
PatternsOf(lines) ==
  IF lines = <<>> THEN <<>>
  ELSE getPatternFromLine(Expand(Head(lines))) \o PatternsOf(Tail(lines))

\* CompileIgnoreLines(strings.Split(content, "\n")...)
CompileIgnoreLines(content) == PatternsOf(SplitNL(content))

\* Does the whole of name[j..] match core[i..], a star being any non-slash run?
RECURSIVE CoreMatch(_, _, _, _)
CoreMatch(core, i, name, j) ==
  IF i > Len(core) THEN j > Len(name)
  ELSE \E k \in (IF core[i] = STAR THEN j..(Len(name) + 1)
                 ELSE IF j <= Len(name) /\ name[j] = core[i] THEN {j + 1} ELSE {}) :
          CoreMatch(core, i + 1, name, k)

\* ip.Pattern.MatchString(f) for the root-relative path rel (a sequence of names)
RuleMatches(rule, rel) ==
  \E i \in 1..Len(rel) :
     /\ CoreMatch(rule.core, 1, rel[i], 1)
     /\ rule.anchored => i = 1
     /\ rule.dirOnly => i < Len(rel)

\* One turn of the loop of MatchesPath: a matching rule includes the path in
\* the ignored ones, a matching negated rule takes it out again.
RuleVerdict(negate, matched, matchesPath) ==
  IF ~matched THEN matchesPath
  ELSE IF ~negate THEN TRUE
  ELSE IF matchesPath THEN FALSE ELSE matchesPath

RECURSIVE MatchesFrom(_, _, _, _)
MatchesFrom(rules, i, rel, matchesPath) ==
  IF i > Len(rules) THEN matchesPath
  ELSE MatchesFrom(rules, i + 1, rel,
                   RuleVerdict(rules[i].negate, RuleMatches(rules[i], rel), matchesPath))

\* gi.MatchesPath(relPath)
MatchesPath(rules, rel) == MatchesFrom(rules, 1, rel, FALSE)

----------------------------------------------------------------------------
(* Reading files: the binary detector and the line scanner *)

\* buf := make([]byte, 512)
BinaryPrefix == 512
\* bufio.MaxScanTokenSize, the limit of bufio.NewScanner's buffer
MaxScanTokenSize == 65536

\* A node of the tree: kind is "file", "dir" or "absent"; perm is "r" or
\* "none" for a file (can it be opened for reading), "rwx", "r" (listable,
\* entries not reachable) or "none" for a directory.
CanOpen(node) == node.kind = "file" /\ node.perm = "r"

\* bytes.Contains(buf[:n], []byte{0}): is there a NUL among the first n bytes?
RECURSIVE NulWithin(_, _, _, _)
NulWithin(c, i, off, n) ==
  IF i > Len(c) \/ off >= n THEN FALSE
  ELSE IF c[i][1] = NUL THEN TRUE
  ELSE NulWithin(c, i + 1, off + c[i][2], n)

\* n, _ := file.Read(buf); a read of nothing is an error
PrefixHasNul(content, n) == IF n = 0 THEN FALSE ELSE NulWithin(content, 1, 0, n)

\* IsBinaryFile with a buffer one byte short, against which
\* C4_BinaryExactlyWhenNulInPrefix is checked.
IsBinaryFileShortBuffer(node) ==
  IF ~CanOpen(node) THEN FALSE
  ELSE PrefixHasNul(node.content, Min(BinaryPrefix - 1, RunsLen(node.content)))

IsBinaryFile(node) ==
  IF ~CanOpen(node) THEN FALSE                       \* os.Open failed
  ELSE PrefixHasNul(node.content, Min(BinaryPrefix, RunsLen(node.content)))

\* dropCR of bufio.ScanLines
DropCR(line) ==
  IF line # <<>> /\ line[Len(line)] = CR THEN SubSeq(line, 1, Len(line) - 1) ELSE line

\* Without a final empty piece.
DropLastEmpty(ps) == IF ps[Len(ps)] = <<>> THEN SubSeq(ps, 1, Len(ps) - 1) ELSE ps

\* The tokens bufio.ScanLines cuts the content into: the pieces between
\* newlines, without a final empty piece.
ScanPieces(c) == DropLastEmpty(SplitNL(c))

\* scanner.Err(): a piece that does not fit the scanner's buffer (ErrTooLong).
ScanErr(pieces) == \E i \in 1..Len(pieces) : RunsLen(pieces[i]) >= MaxScanTokenSize

\* loc := re.FindStringIndex(line); column is loc[0] when there is a loc
ColumnOf(loc) == IF Len(loc) > 0 THEN loc[1] ELSE 0

\* The characters of a UTF-8 text: its bytes other than continuation bytes.
Chars(bs) == Cardinality({i \in 1..Len(bs) : bs[i] \notin 128..191})

\* The Result with the column counted in characters, against which
\* C21_LineAndColumnWithinFile is checked.
LineResultCountingCharacters(path, re, lineNum, line) ==
  IF MatchString(re, line)
  THEN <<[Path |-> path, Line |-> lineNum,
          Column |-> Chars(SubSeq(line, 1, ColumnOf(FindStringIndex(re, line)))),
          Match |-> line]>>
  ELSE <<>>

\* The Result of line number lineNum, when the pattern matches on it.
LineResult(path, re, lineNum, line) ==
  IF MatchString(re, line)
  THEN <<[Path |-> path, Line |-> lineNum, Column |-> ColumnOf(FindStringIndex(re, line)),
          Match |-> line]>>
  ELSE <<>>

\* The loop of searchFile: one Result per matching line, until the scanner
\* stops (end of input, or a piece that does not fit its buffer).
RECURSIVE ScanFrom(_, _, _, _)
ScanFrom(path, re, pieces, lineNum) ==
  IF lineNum > Len(pieces) \/ RunsLen(pieces[lineNum]) >= MaxScanTokenSize THEN <<>>
  ELSE LineResult(path, re, lineNum, DropCR(Expand(pieces[lineNum])))
         \o ScanFrom(path, re, pieces, lineNum + 1)

\* The scan returning the matches found before the scanner stopped, against
\* which C24_FailedScanGivesNoRecord is checked.
ScanFileKeepingMatches(path, re, pieces) ==
  [err |-> FALSE, results |-> ScanFrom(path, re, pieces, 1)]

\* The scan of an opened file: the results, or the scanner's error.
ScanFile(path, re, pieces) ==
  IF ScanErr(pieces) THEN [err |-> TRUE, results |-> <<>>]
  ELSE [err |-> FALSE, results |-> ScanFrom(path, re, pieces, 1)]

\* searchFile(path, re): [err, results]
searchFile(path, node, re) ==
  IF ~CanOpen(node) THEN [err |-> TRUE, results |-> <<>>]
  ELSE ScanFile(path, re, ScanPieces(node.content))

----------------------------------------------------------------------------
(* The symbol recognisers.  Their expressions are all anchored at the start *)
(* of the line and built from: white-space runs, literal keywords and      *)
(* alternations of them, one captured word, optional groups and runs of    *)
(* bytes other than ")".  An expression is kept as the sequence of these   *)
(* elements and matched left to right.  In every one of the expressions    *)
(* the element after a run cannot start with a byte of the run, the        *)
(* alternatives of an alternation start with different bytes, and what     *)
(* follows an optional group cannot match where the group does; so the     *)
(* greedy match computed here is the only match there is.                  *)

SpaceBytes == {9, 10, 12, 13, 32}                       \* \s
WordBytes == (48..57) \cup (65..90) \cup {95} \cup (97..122)   \* \w
RParen == 41
NotRParen == (0..255) \ {RParen}

Ws(min) == [t |-> "span", class |-> SpaceBytes, min |-> min, cap |-> FALSE]
NotClose(min) == [t |-> "span", class |-> NotRParen, min |-> min, cap |-> FALSE]
Word == [t |-> "span", class |-> WordBytes, min |-> 1, cap |-> TRUE]
Lit(alts) == [t |-> "lit", alts |-> alts, fold |-> FALSE, cap |-> FALSE]
LitFold(alts) == [t |-> "lit", alts |-> alts, fold |-> TRUE, cap |-> FALSE]
Opt(sub) == [t |-> "opt", sub |-> sub, cap |-> FALSE]

Lower(b) == IF b \in 65..90 THEN b + 32 ELSE b

\* Least k >= pos with line[k] outside class (Len(line) + 1 when there is none).
SpanEnd(line, pos, class) ==
  CHOOSE k \in pos..(Len(line) + 1) :
    /\ \A j \in pos..(k - 1) : line[j] \in class
    /\ k <= Len(line) => line[k] \notin class

\* k when the run up to k has at least min bytes, else 0 (no match).
LongEnough(k, pos, min) == IF k - pos >= min THEN k ELSE 0

LitAt(lit, fold, line, pos) ==
  /\ pos + Len(lit) - 1 <= Len(line)
  /\ \A j \in 1..Len(lit) :
       IF fold THEN Lower(line[pos + j - 1]) = Lower(lit[j])
       ELSE line[pos + j - 1] = lit[j]

\* The position after the first of the alternatives is found at pos, 0 when
\* none of them is.
FirstAltEnd(alts, is, pos) == IF is = {} THEN 0 ELSE pos + Len(alts[Least(is)])

LitEnd(alts, fold, line, pos) ==
  FirstAltEnd(alts, {i \in 1..Len(alts) : LitAt(alts[i], fold, line, pos)}, pos)

\* The position after element e matched at pos, 0 when it does not match.
ElemEnd(e, line, pos) ==
  IF e.t = "lit" THEN LitEnd(e.alts, e.fold, line, pos)
  ELSE LongEnough(SpanEnd(line, pos, e.class), pos, e.min)

\* The position after the elements of an optional group matched at pos, or 0.
RECURSIVE GroupEnd(_, _, _)
GroupRest(rest, line, k) == IF k = 0 THEN 0 ELSE GroupEnd(rest, line, k)

GroupEnd(elems, line, pos) ==
  IF elems = <<>> THEN pos
  ELSE GroupRest(Tail(elems), line, ElemEnd(Head(elems), line, pos))

\* An optional group that does not match is skipped.
OrSkip(k, pos) == IF k = 0 THEN pos ELSE k

\* The position after e, an optional group being taken when it matches.
StepEnd(e, line, pos) ==
  IF e.t = "opt" THEN OrSkip(GroupEnd(e.sub, line, pos), pos)
  ELSE ElemEnd(e, line, pos)

\* Match elems against line from position pos; cap is the captured word so
\* far.  The result is <<captured word>>, or <<>> when the line does not match.
RECURSIVE RunElems(_, _, _, _)
RunRest(e, rest, line, pos, cap, k) ==
  IF k = 0 THEN <<>>
  ELSE RunElems(rest, line, k, IF e.cap THEN SubSeq(line, pos, k - 1) ELSE cap)

RunElems(elems, line, pos, cap) ==
  IF elems = <<>> THEN <<cap>>
  ELSE RunRest(Head(elems), Tail(elems), line, pos, cap, StepEnd(Head(elems), line, pos))

\* re.FindSubmatch(line)[1] as <<name>>, or <<>> when the line does not match.
FindSubmatch(elems, line) == RunElems(elems, line, 1, <<>>)

----------------------------------------------------------------------------
(* Symbol extraction *)

\* ^\s*func\s+(?:\([^)]+\)\s+)?(\w+)\s*\(
GoFuncRe ==
  <<Ws(0), Lit(<<B(<<"f","u","n","c">>)>>), Ws(1),
    Opt(<<Lit(<<B(<<"(">>)>>), NotClose(1), Lit(<<B(<<")">>)>>), Ws(1)>>),
    Word, Ws(0), Lit(<<B(<<"(">>)>>)>>
\* ^\s*type\s+(\w+)\s+(?:struct|interface)
GoTypeRe ==
  <<Ws(0), Lit(<<B(<<"t","y","p","e">>)>>), Ws(1), Word, Ws(1),
    Lit(<<B(<<"s","t","r","u","c","t">>), B(<<"i","n","t","e","r","f","a","c","e">>)>>)>>
\* The variable expression taking the keyword type as well, so that a type
\* definition satisfies two expressions, against which
\* C22_OneRecordPerSatisfiedPattern is checked.
GoVarReWithType ==
  <<Ws(0), Lit(<<B(<<"c","o","n","s","t">>), B(<<"v","a","r">>), B(<<"t","y","p","e">>)>>),
    Ws(1), Word>>
\* ^\s*(?:const|var)\s+(\w+)
GoVarRe ==
  <<Ws(0), Lit(<<B(<<"c","o","n","s","t">>), B(<<"v","a","r">>)>>), Ws(1), Word>>

\* ^\s*(?:export\s+)?(?:async\s+)?function\s+(\w+)\s*\(
JSFuncRe ==
  <<Ws(0), Opt(<<Lit(<<B(<<"e","x","p","o","r","t">>)>>), Ws(1)>>),
    Opt(<<Lit(<<B(<<"a","s","y","n","c">>)>>), Ws(1)>>),
    Lit(<<B(<<"f","u","n","c","t","i","o","n">>)>>), Ws(1), Word, Ws(0),
    Lit(<<B(<<"(">>)>>)>>
\* ^\s*(?:export\s+)?class\s+(\w+)
JSClassRe ==
  <<Ws(0), Opt(<<Lit(<<B(<<"e","x","p","o","r","t">>)>>), Ws(1)>>),
    Lit(<<B(<<"c","l","a","s","s">>)>>), Ws(1), Word>>
\* ^\s*(?:export\s+)?(?:const|let|var)\s+(\w+)
JSVarRe ==
  <<Ws(0), Opt(<<Lit(<<B(<<"e","x","p","o","r","t">>)>>), Ws(1)>>),
    Lit(<<B(<<"c","o","n","s","t">>), B(<<"l","e","t">>), B(<<"v","a","r">>)>>),
    Ws(1), Word>>
\* ^\s*(\w+)\s*\([^)]*\)\s*{
JSMethodRe ==
  <<Ws(0), Word, Ws(0), Lit(<<B(<<"(">>)>>), NotClose(0), Lit(<<B(<<")">>)>>),
    Ws(0), Lit(<<B(<<"{">>)>>)>>

\* ^\s*def\s+(\w+)\s*\(
PyFuncRe ==
  <<Ws(0), Lit(<<B(<<"d","e","f">>)>>), Ws(1), Word, Ws(0), Lit(<<B(<<"(">>)>>)>>
\* ^\s*class\s+(\w+)
PyClassRe == <<Ws(0), Lit(<<B(<<"c","l","a","s","s">>)>>), Ws(1), Word>>
\* ^(\w+)\s*=
PyVarRe == <<Word, Ws(0), Lit(<<B(<<"=">>)>>)>>

\* (?i)^\s*CREATE\s+TABLE\s+(\w+)
SQLTableRe ==
  <<Ws(0), LitFold(<<B(<<"c","r","e","a","t","e">>)>>), Ws(1),
    LitFold(<<B(<<"t","a","b","l","e">>)>>), Ws(1), Word>>
\* (?i)^\s*CREATE\s+(?:FUNCTION|PROCEDURE)\s+(\w+)
SQLFuncRe ==
  <<Ws(0), LitFold(<<B(<<"c","r","e","a","t","e">>)>>), Ws(1),
    LitFold(<<B(<<"f","u","n","c","t","i","o","n">>),
              B(<<"p","r","o","c","e","d","u","r","e">>)>>),
    Ws(1), Word>>
\* (?i)^\s*CREATE\s+VIEW\s+(\w+)
SQLViewRe ==
  <<Ws(0), LitFold(<<B(<<"c","r","e","a","t","e">>)>>), Ws(1),
    LitFold(<<B(<<"v","i","e","w">>)>>), Ws(1), Word>>

\* One "if matches := re.FindSubmatch(line); matches != nil { append }" block
\* of an extractor: its expression, the kind it records, whether it records
\* column 0 instead of bytes.Index(line, matches[1]), and the text whose
\* presence in the line disables it (<<>> for none).
Block(re, kind) == [re |-> re, kind |-> kind, zeroColumn |-> FALSE, unless |-> <<>>]

GoBlocks == <<Block(GoFuncRe, "function"), Block(GoTypeRe, "type"),
              Block(GoVarRe, "variable")>>

\* the method block runs when !bytes.Contains(line, "function")
JSBlocks == <<Block(JSFuncRe, "function"), Block(JSClassRe, "class"),
              Block(JSVarRe, "variable"),
              [re |-> JSMethodRe, kind |-> "method", zeroColumn |-> FALSE,
               unless |-> B(<<"f","u","n","c","t","i","o","n">>)]>>

\* the variable block records Column: 0
PythonBlocks == <<Block(PyFuncRe, "function"), Block(PyClassRe, "class"),
                  [re |-> PyVarRe, kind |-> "variable", zeroColumn |-> TRUE,
                   unless |-> <<>>]>>

SQLBlocks == <<Block(SQLTableRe, "table"), Block(SQLFuncRe, "function"),
               Block(SQLViewRe, "view")>>

\* The greatest position at which sub lies in s.
LastIndexOf(s, sub) ==
  CHOOSE k \in 1..Len(s) :
    /\ SubSeq(s, k, k + Len(sub) - 1) = sub
    /\ \A j \in (k + 1)..Len(s) : SubSeq(s, j, j + Len(sub) - 1) # sub

\* The Symbol with the column of the last occurrence of the name in the
\* line, against which C26_ColumnIsFirstOccurrence is checked.
BlockSymbolLastOccurrence(block, m, line, lineNo) ==
  IF m = <<>> THEN <<>>
  ELSE <<[Name |-> m[1], Line |-> lineNo,
          Column |-> IF block.zeroColumn THEN 0 ELSE LastIndexOf(line, m[1]) - 1,
          Kind |-> block.kind]>>

\* The Symbol a block appends for the submatch m of line.
BlockSymbol(block, m, line, lineNo) ==
  IF m = <<>> THEN <<>>
  ELSE <<[Name |-> m[1], Line |-> lineNo,
          Column |-> IF block.zeroColumn THEN 0 ELSE IndexOf(line, m[1]) - 1,
          Kind |-> block.kind]>>

SymbolOf(block, line, lineNo) ==
  IF block.unless # <<>> /\ IndexOf(line, block.unless) # 0 THEN <<>>
  ELSE BlockSymbol(block, FindSubmatch(block.re, line), line, lineNo)

\* The blocks of an extractor's loop body, in order, on one line.
RECURSIVE LineSymbols(_, _, _, _)
LineSymbols(blocks, j, line, lineNo) ==
  IF j > Len(blocks) THEN <<>>
  ELSE SymbolOf(blocks[j], line, lineNo) \o LineSymbols(blocks, j + 1, line, lineNo)

\* for i, line := range lines, with lineNum := i + 1
RECURSIVE LinesSymbols(_, _, _)
LinesSymbols(blocks, lines, i) ==
  IF i > Len(lines) THEN <<>>
  ELSE LineSymbols(blocks, 1, Expand(lines[i]), i) \o LinesSymbols(blocks, lines, i + 1)

ExtGo == B(<<".","g","o">>)
ExtTs == B(<<".","t","s">>)
ExtTsx == B(<<".","t","s","x">>)
ExtJs == B(<<".","j","s">>)
ExtJsx == B(<<".","j","s","x">>)
ExtPy == B(<<".","p","y">>)
ExtSql == B(<<".","s","q","l">>)

\* The extractor chosen by extension (the switch of extractSymbols).
BlocksFor(ext) ==
  CASE ext = ExtGo -> GoBlocks
    [] ext \in {ExtTs, ExtTsx, ExtJs, ExtJsx} -> JSBlocks
    [] ext = ExtPy -> PythonBlocks
    [] ext = ExtSql -> SQLBlocks
    [] OTHER -> <<>>


\* filepath.Ext: the suffix of the last element from its last dot, or "".
Ext(path) ==
  LET dots == {i \in 1..Len(Base(path)) : Base(path)[i] = DOT}
  IN IF dots = {} THEN <<>>
     ELSE SubSeq(Base(path), CHOOSE i \in dots : \A j \in dots : j <= i, Len(Base(path)))

\* IsSupportedSymbolFile accepting every file that has an extension, against
\* which C10_UnsupportedFilesUntouched is checked.
IsSupportedSymbolFileAnyExt(path) == Ext(path) # <<>>

IsSupportedSymbolFile(path) ==
  Ext(path) \in {ExtGo, ExtTs, ExtTsx, ExtJs, ExtJsx, ExtPy, ExtSql}

\* extractSymbols(path): [err, symbols]
extractSymbols(path, node) ==
  IF ~CanOpen(node) THEN [err |-> TRUE, symbols |-> <<>>]      \* os.ReadFile failed
  ELSE [err |-> FALSE,
        symbols |-> LinesSymbols(BlocksFor(Ext(path)), SplitNL(node.content), 1)]

----------------------------------------------------------------------------
(* The Mutator: plain replace and symbol-scoped replace.  A file is read    *)
(* whole, cut at its newline bytes, every line is substituted on its own   *)
(* and the lines are joined with newline bytes again, so that a file none  *)
(* of whose lines changed keeps its bytes.                                 *)

\* The line from byte from on, with the leftmost match among the positions
\* ks (each of n bytes) substituted and the rest substituted after it.
RECURSIVE ReplaceAll(_, _, _, _, _)
ReplaceNext(ks, n, repl, line, from, k) ==
  SubSeq(line, from, k - 1) \o repl \o ReplaceAll(ks, n, repl, line, k + n)

ReplaceLeft(ks, n, repl, line, from, left) ==
  IF left = {} THEN SubSeq(line, from, Len(line))
  ELSE ReplaceNext(ks, n, repl, line, from, Least(left))

\* Global substitution in one line: every non-overlapping match, leftmost
\* first, is replaced by the literal repl.
ReplaceAll(ks, n, repl, line, from) ==
  ReplaceLeft(ks, n, repl, line, from, {k \in ks : k >= from})

\* Every position at which the pattern matches, inside longer words too,
\* against which C15_NonIgnoredDefiningFileRenamed is checked.
WordPositionsAnywhere(atoms, line) == MatchPositions(atoms, line)

\* The positions at which the pattern matches as a whole word: no word byte
\* right before the match and none right after it.
WordPositions(atoms, line) ==
  {k \in MatchPositions(atoms, line) :
     /\ (k = 1 \/ line[k - 1] \notin WordBytes)
     /\ (k + Len(atoms) > Len(line) \/ line[k + Len(atoms)] \notin WordBytes)}

\* What becomes of one line: the piece written back and the Change Record
\* when the line changed.
LineEdit(path, lineNo, piece, old, new) ==
  IF new = old THEN [piece |-> piece, change |-> <<>>]
  ELSE [piece |-> Runs(new),
        change |-> <<[Path |-> path, Line |-> lineNo, Before |-> old, After |-> new]>>]

\* One line of a plain replace.
PlainEdit(path, atoms, repl, lineNo, piece, old) ==
  LineEdit(path, lineNo, piece, old,
           ReplaceAll(MatchPositions(atoms, old), Len(atoms), repl, old, 1))

\* One line of a symbol-scoped replace.
WordEdit(path, atoms, repl, lineNo, piece, old) ==
  LineEdit(path, lineNo, piece, old,
           ReplaceAll(WordPositions(atoms, old), Len(atoms), repl, old, 1))

\* The pieces joined with newline bytes, and the Change Records in line order.
RECURSIVE JoinNL(_, _)
JoinNL(edits, i) ==
  IF i > Len(edits) THEN <<>>
  ELSE (IF i = 1 THEN <<>> ELSE Text(<<NL>>)) \o edits[i].piece \o JoinNL(edits, i + 1)

RECURSIVE ChangesOf(_, _)
ChangesOf(edits, i) ==
  IF i > Len(edits) THEN <<>> ELSE edits[i].change \o ChangesOf(edits, i + 1)

\* The outcome for a file that was read: its Change Records and, when a line
\* changed, the content written back.
FileEdit(changes, edits) ==
  [err |-> FALSE, changes |-> changes,
   write |-> IF changes = <<>> THEN <<>> ELSE <<JoinNL(edits, 1)>>]

EditedFile(edits) == FileEdit(ChangesOf(edits, 1), edits)

NoEdit(failed) == [err |-> failed, changes |-> <<>>, write |-> <<>>]

\* Plain replace in one file.
PlainEdits(path, atoms, repl, pieces) ==
  [i \in 1..Len(pieces) |-> PlainEdit(path, atoms, repl, i, pieces[i], Expand(pieces[i]))]

replaceInFile(path, node, atoms, repl) ==
  IF ~CanOpen(node) THEN NoEdit(TRUE)
  ELSE EditedFile(PlainEdits(path, atoms, repl, SplitNL(node.content)))

\* Symbol-scoped replace in one file: only a file that defines the name.
WordEdits(path, atoms, repl, pieces) ==
  [i \in 1..Len(pieces) |-> WordEdit(path, atoms, repl, i, pieces[i], Expand(pieces[i]))]

Defines(symbols, name) == \E i \in 1..Len(symbols) : symbols[i].Name = name

RenameIn(path, node, atoms, repl, defined) ==
  IF ~defined THEN NoEdit(FALSE)
  ELSE EditedFile(WordEdits(path, atoms, repl, SplitNL(node.content)))

RenameDefined(path, node, name, atoms, repl, x) ==
  IF x.err THEN NoEdit(TRUE)
  ELSE RenameIn(path, node, atoms, repl, Defines(x.symbols, name))

replaceSymbolInFile(path, node, name, atoms, repl) ==
  RenameDefined(path, node, name, atoms, repl, extractSymbols(path, node))

----------------------------------------------------------------------------
(* FormatEmacsOutput *)

\* The decimal digits of n >= 0, most significant first.
RECURSIVE Digits(_)
Digits(n) ==
  IF n < 10 THEN <<Code["0"] + n>>
  ELSE Append(Digits(n \div 10), Code["0"] + (n % 10))

\* The verb %d of fmt.Fprintf
FormatInt(n) == IF n < 0 THEN <<Code["-"]>> \o Digits(0 - n) ELSE Digits(n)

\* fmt.Fprintf(&output, "%s:%d:%d: %s\n", result.Path, result.Line,
\*             result.Column, result.Match)
FormatResult(result) ==
  result.Path \o <<Code[":"]>> \o FormatInt(result.Line) \o <<Code[":"]>>
    \o FormatInt(result.Column) \o <<Code[":"], SP>> \o result.Match \o <<NL>>

\* The loop writing every result but one equal to the result before it,
\* against which C17_OneLinePerRecord is checked.
RECURSIVE FormatFromSkippingRepeats(_, _)
FormatFromSkippingRepeats(rs, i) ==
  IF i > Len(rs) THEN <<>>
  ELSE (IF i > 1 /\ rs[i] = rs[i - 1] THEN <<>> ELSE FormatResult(rs[i]))
         \o FormatFromSkippingRepeats(rs, i + 1)

\* for _, result := range results { ... }
RECURSIVE FormatFrom(_, _)
FormatFrom(rs, i) ==
  IF i > Len(rs) THEN <<>> ELSE FormatResult(rs[i]) \o FormatFrom(rs, i + 1)

\* FormatEmacsOutput(results)
FormatEmacsOutput(rs) == FormatFrom(rs, 1)

----------------------------------------------------------------------------
(* The contents, ignore files and patterns the model draws its inputs from *)

Xb == Code["x"]
NLText == Text(<<NL>>)

\* "oh hello hello\nfoo\nhello\n"
CHello == Text(B(<<"o","h"," ","h","e","l","l","o"," ","h","e","l","l","o">>)) \o NLText
            \o Text(B(<<"f","o","o">>)) \o NLText
            \o Text(B(<<"h","e","l","l","o">>)) \o NLText
\* "func hello() {}\n"
CGoLike == Text(B(<<"f","u","n","c"," ","h","e","l","l","o","(",")"," ","{","}">>)) \o NLText
\* "hello\x00x\n"
CNulEarly == Text(B(<<"h","e","l","l","o">>)) \o Text(<<NUL>>) \o Text(<<Xb>>) \o NLText
\* 511 bytes, a NUL as the 512th, then "\nhello\n"
CNul511 == Fill(Xb, BinaryPrefix - 1) \o Text(<<NUL>>) \o NLText
             \o Text(B(<<"h","e","l","l","o">>)) \o NLText
\* 512 bytes, a NUL as the 513th, then "\nhello\n"
CNul512 == Fill(Xb, BinaryPrefix) \o Text(<<NUL>>) \o NLText
             \o Text(B(<<"h","e","l","l","o">>)) \o NLText
CEmpty == <<>>
\* "hello\n", a line of 65536 bytes, "\nhello\n"
CLong == Text(B(<<"h","e","l","l","o">>)) \o NLText \o Fill(Xb, MaxScanTokenSize) \o NLText
           \o Text(B(<<"h","e","l","l","o">>)) \o NLText
\* "\xc3\xa9 hello\n": e with an acute accent, two bytes in UTF-8, then " hello"
CUtf == Text(<<195, 169>>) \o Text(B(<<" ","h","e","l","l","o">>)) \o NLText
\* "hello\n"
CK == Text(B(<<"h","e","l","l","o">>)) \o NLText
\* "package main\nfunc hello() {}\ntype T struct {\n"
CGo == Text(B(<<"p","a","c","k","a","g","e"," ","m","a","i","n">>)) \o NLText
         \o Text(B(<<"f","u","n","c"," ","h","e","l","l","o","(",")"," ","{","}">>)) \o NLText
         \o Text(B(<<"t","y","p","e"," ","T"," ","s","t","r","u","c","t"," ","{">>)) \o NLText
\* "func hello() {}\x00\n"
CGoNul == Text(B(<<"f","u","n","c"," ","h","e","l","l","o","(",")"," ","{","}">>))
            \o Text(<<NUL>>) \o NLText
\* "def hello():\nx = hello\n"
CPy == Text(B(<<"d","e","f"," ","h","e","l","l","o","(",")",":">>)) \o NLText
         \o Text(B(<<"x"," ","="," ","h","e","l","l","o">>)) \o NLText

\* "d/\n"
IgnD == Text(B(<<"d","/">>)) \o NLText
\* "d\n"
IgnDName == Text(B(<<"d">>)) \o NLText
\* "d/\n!*.txt\n"
IgnDNeg == Text(B(<<"d","/">>)) \o NLText \o Text(B(<<"!","*",".","t","x","t">>)) \o NLText
\* "# c\n*.txt \n"
IgnGlob == Text(B(<<"#"," ","c">>)) \o NLText
             \o Text(B(<<"*",".","t","x","t"," ">>)) \o NLText

PHello == B(<<"h","e","l","l","o">>)
PClass == B(<<"l","[","l","o","]">>)
PFunc == B(<<"f","u","n","c">>)
PBad == B(<<"[","i","n">>)
PTxt == B(<<"t","x","t">>)
PD == B(<<"d">>)

Ops == {"Find", "FindSymbols", "GlobFiles", "GlobDirectories"}
PatternsFor(o) ==
  IF o \in {"Find", "FindSymbols"} THEN {PHello, PClass, PFunc, PBad}
  ELSE {PTxt, PD, PBad}

File(content) == [kind |-> "file", perm |-> "r", content |-> content]
Unreadable(content) == [kind |-> "file", perm |-> "none", content |-> content]
Dir(perm) == [kind |-> "dir", perm |-> perm, content |-> <<>>]
Absent == [kind |-> "absent", perm |-> "none", content |-> <<>>]
\* A symbolic link to the entry at path target.
Symlink(target) == [kind |-> "symlink", perm |-> "r", content |-> <<>>, target |-> target]

MkFs(rootPerm, ign, a, dperm, k, sgo) ==
  [p \in Tree |->
     CASE p = RootPath -> Dir(rootPerm)
       [] p = GitignorePath -> ign
       [] p = ATxt -> a
       [] p = DDir -> Dir(dperm)
       [] p = DKTxt -> k
       [] p = DSGo -> sgo
       [] p = MPy -> File(CPy)]

IgnVariants == {Absent, Unreadable(IgnD), File(IgnD), File(IgnDName), File(IgnDNeg),
                File(IgnGlob)}
AVariants == {File(CHello), File(CGoLike), File(CNulEarly), File(CNul511), File(CNul512),
              File(CEmpty), File(CLong), File(CUtf), Unreadable(CHello)}
DirPerms == {"rwx", "r", "none"}
KVariants == {File(CK), Unreadable(CK), File(CNulEarly)}
SVariants == {File(CGo), File(CGoNul), Unreadable(CGo)}

\* The trees a run may start from.
InitialTrees ==
  {MkFs("rwx", ign, a, dp, k, sg) :
     ign \in IgnVariants, a \in {File(CHello), File(CGoLike)}, dp \in DirPerms,
     k \in KVariants, sg \in SVariants}
  \cup {MkFs("rwx", ign, a, "rwx", File(CK), File(CGo)) :
          ign \in {Absent, File(IgnD)}, a \in AVariants}
  \cup {MkFs("rwx", ign, Unreadable(CHello), dp, File(CK), File(CGo)) :
          ign \in {Absent, File(IgnD)}, dp \in DirPerms}
  \cup {MkFs(rp, File(IgnD), File(CHello), "rwx", File(CK), File(CGo)) : rp \in DirPerms}

----------------------------------------------------------------------------
(* State *)

VARIABLES
  fs,        \* the tree: path -> node
  rootStat,  \* what os.Stat / os.Lstat of the root gives: "ok", "ENOENT", "EACCES"
  pc,        \* where the running operation is: "idle", "compile", "stat",
             \* "ignore", "walk", "done"
  op,        \* the operation called
  pattern,   \* its pattern argument
  re,        \* the compiled pattern
  gi,        \* the loaded ignore rules: [nil, rules]
  todo,      \* the paths filepath.Walk has still to walk, in order
  walkErr,   \* the error filepath.Walk returns
  results,   \* the records accumulated, then returned
  err,       \* the error returned: "nil" or its text
  visited,   \* the paths the walk callback was called with, in order
  examined,  \* the file-system calls made so far: <<call, path>>, call being
             \* "stat", "lstat", "list" (readDirNames), "open" (a file opened
             \* for its content) or "rules" (the ignore file read)
  file,      \* the path IsBinaryFile was called with
  binary,    \* what IsBinaryFile returned
  repl,      \* the replacement argument of Replace and ReplaceSymbol
  before,    \* the tree as it was when the running operation was called
  last,      \* the call that returned before this one: [op, pattern, repl,
             \* before], when the caller keeps track of it
  writes,    \* the number of calls of Replace and ReplaceSymbol so far
  output,    \* the string FormatEmacsOutput returned
  args,      \* os.Args of the run of the command
  dotenv,    \* whether godotenv.Load finds a .env file it can load
  ran,       \* the subcommand run has called: "none", "runFormat", ...
  memo,      \* an earlier call and what it returned, when the caller kept it:
             \* [op, pattern, fs, rootStat, results, err]
  stedi      \* the run of runStedi: [subscribers, rest, requests, replies,
             \* outputFile, stdout]

vars == <<fs, rootStat, pc, op, pattern, re, gi, todo, walkErr, results, err,
          visited, examined, file, binary, repl, before, last, writes,
          output, args, dotenv, ran, memo, stedi>>

NilGi == [nil |-> TRUE, rules |-> <<>>]

\* Path resolution as the kernel does it: the symbolic links among the
\* directories of a path are followed by every call, the link a path ends in
\* by os.Open, os.Stat and os.ReadFile but not by os.Lstat.
TargetOf(q) == IF q \in Tree /\ fs[q].kind = "symlink" THEN fs[q].target ELSE q

RECURSIVE Real(_)
Real(p) == IF p = RootPath THEN p ELSE Append(TargetOf(Real(Parent(p))), Base(p))

\* The directory a path names when opened.
DirOf(d) == TargetOf(Real(d))

NodeOrAbsent(q) == IF q \in Tree THEN fs[q] ELSE Absent

\* What os.Lstat(p) describes.
LstatNode(p) == NodeOrAbsent(Real(p))

\* A link to a link does not resolve (the links of the trees are links to
\* themselves at most: ELOOP).
Unlinked(m) == IF m.kind = "symlink" THEN Absent ELSE m
Deref(n) == IF n.kind = "symlink" THEN Unlinked(NodeOrAbsent(n.target)) ELSE n

\* What os.Open(p) opens.
Opened(p) == Deref(LstatNode(p))

ErrInvalidPattern == "invalid regex pattern"
ErrNoDirectory == "directory does not exist"

\* No call made before.
NoCall == [op |-> "none", pattern |-> <<>>, repl |-> <<>>, before |-> <<>>]

\* No call kept.
NoMemo == [op |-> "none", pattern |-> <<>>, fs |-> <<>>, rootStat |-> "ok",
           results |-> <<>>, err |-> "nil", writes |-> 0]

\* No output file; a file holding bytes.
NoFile == [exists |-> FALSE, bytes |-> <<>>]
FileOf(bytes) == [exists |-> TRUE, bytes |-> bytes]

\* runStedi not called.
NoStedi == [subscribers |-> <<>>, rest |-> <<>>, requests |-> <<>>, replies |-> <<>>,
            outputFile |-> NoFile, stdout |-> <<>>]

\* Nothing called yet on the tree.
Fresh ==
  /\ pc = "idle"
  /\ op = "none"
  /\ pattern = <<>>
  /\ re = <<>>
  /\ gi = NilGi
  /\ todo = <<>>
  /\ walkErr = "nil"
  /\ results = <<>>
  /\ err = "nil"
  /\ visited = <<>>
  /\ examined = {}
  /\ file = <<>>
  /\ binary = FALSE
  /\ repl = <<>>
  /\ before = fs
  /\ last = NoCall
  /\ writes = 0
  /\ output = <<>>
  /\ args = <<>>
  /\ dotenv = TRUE
  /\ ran = "none"
  /\ memo = NoMemo
  /\ stedi = NoStedi

Init ==
  /\ \/ rootStat = "ok" /\ fs \in InitialTrees
     \/ /\ rootStat \in {"ENOENT", "EACCES"}
        /\ fs = MkFs("rwx", File(IgnD), File(CHello), "rwx", File(CK), File(CGo))
  /\ Fresh

----------------------------------------------------------------------------
(* The walk callbacks.  Each gives [ret, add, opens]: the value returned to *)
(* filepath.Walk ("nil", "SkipDir"), the records appended to results and   *)
(* the files it opened.  ignored is what gi != nil && gi.MatchesPath(rel)  *)
(* gives for the path.                                                     *)

CbRet(ret, add, opens) == [ret |-> ret, add |-> add, opens |-> opens, write |-> <<>>]

\* The same for a callback that writes a file back: write is <<content>>.
CbWrite(ret, add, opens, write) == [ret |-> ret, add |-> add, opens |-> opens, write |-> write]

\* The callback returning the error of searchFile instead of skipping the
\* file, against which C5_ErrorIffMissingOrInvalid is checked.
SearchOutcomeFatal(path, m) ==
  IF m.err THEN CbRet("EACCES", <<>>, {path}) ELSE CbRet("nil", m.results, {path})

\* A newline byte as content.
NLTerminator == <<<<NL, 1>>>>

\* The callback writing a searched file back with a newline added at its
\* end, against which C27_SearchesLeaveTreeUnchanged is checked.
SearchOutcomeRewriting(path, m) ==
  IF m.err THEN CbRet("nil", <<>>, {path})
  ELSE CbWrite("nil", m.results, {path}, <<Opened(path).content \o NLTerminator>>)

\* matches, err := searchFile(path, re); an error skips the file
SearchOutcome(path, m) ==
  IF m.err THEN CbRet("nil", <<>>, {path}) ELSE CbRet("nil", m.results, {path})

\* The callback of Find without its binary check, against which
\* C3_NoBinaryFileInResults is checked.
FindCallbackNoBinaryCheck(path, isDir, cbErr, ignored) ==
  IF cbErr THEN CbRet("nil", <<>>, {})
  ELSE IF isDir
       THEN IF path # RootPath /\ ignored
            THEN CbRet("SkipDir", <<>>, {})
            ELSE CbRet("nil", <<>>, {})
  ELSE IF ignored THEN CbRet("nil", <<>>, {})
  ELSE SearchOutcome(path, searchFile(path, Opened(path), re))

\* The callback of Find searching the files the ignore rules exclude,
\* against which C12_NoMatchAfterReplaceKeepingIgnoreFile is checked.
FindCallbackNoIgnoreCheck(path, isDir, cbErr, ignored) ==
  IF cbErr THEN CbRet("nil", <<>>, {})
  ELSE IF isDir
       THEN IF path # RootPath /\ ignored
            THEN CbRet("SkipDir", <<>>, {})
            ELSE CbRet("nil", <<>>, {})
  ELSE IF IsBinaryFile(Opened(path)) THEN CbRet("nil", <<>>, {path})
  ELSE SearchOutcome(path, searchFile(path, Opened(path), re))

\* The callback of Find
FindCallback(path, isDir, cbErr, ignored) ==
  IF cbErr THEN CbRet("nil", <<>>, {})
  ELSE IF isDir
       THEN IF path # RootPath /\ ignored
            THEN CbRet("SkipDir", <<>>, {})
            ELSE CbRet("nil", <<>>, {})
  ELSE IF ignored THEN CbRet("nil", <<>>, {})
  ELSE IF IsBinaryFile(Opened(path)) THEN CbRet("nil", <<>>, {path})
  ELSE SearchOutcome(path, searchFile(path, Opened(path), re))

\* The loop over the symbols appending a record for every symbol whatever
\* its name, against which C11_RecordIffNameMatches is checked.
RECURSIVE SymbolResultsUnfiltered(_, _, _)
SymbolResultsUnfiltered(path, symbols, i) ==
  IF i > Len(symbols) THEN <<>>
  ELSE <<[Path |-> path, Line |-> symbols[i].Line, Column |-> symbols[i].Column,
          Match |-> symbols[i].Name]>> \o SymbolResultsUnfiltered(path, symbols, i + 1)

RECURSIVE SymbolResults(_, _, _)
SymbolResults(path, symbols, i) ==
  IF i > Len(symbols) THEN <<>>
  ELSE (IF MatchString(re, symbols[i].Name)
        THEN <<[Path |-> path, Line |-> symbols[i].Line, Column |-> symbols[i].Column,
                Match |-> symbols[i].Name]>>
        ELSE <<>>) \o SymbolResults(path, symbols, i + 1)

\* The callback returning the error of extractSymbols instead of skipping
\* the file, against which C8_UnreadableEntriesSkipped is checked.
SymbolsOutcomeFatal(path, x) ==
  IF x.err THEN CbRet("EACCES", <<>>, {path})
  ELSE CbRet("nil", SymbolResults(path, x.symbols, 1), {path})

\* symbols, err := extractSymbols(path); an error skips the file
SymbolsOutcome(path, x) ==
  IF x.err THEN CbRet("nil", <<>>, {path})
  ELSE CbRet("nil", SymbolResults(path, x.symbols, 1), {path})

\* The callback of FindSymbols skipping binary files as that of Find does,
\* against which C25_SymbolsOfBinaryFiles is checked.
FindSymbolsCallbackSkippingBinary(path, isDir, cbErr, ignored) ==
  IF cbErr THEN CbRet("nil", <<>>, {})
  ELSE IF isDir
       THEN IF path # RootPath /\ ignored
            THEN CbRet("SkipDir", <<>>, {})
            ELSE CbRet("nil", <<>>, {})
  ELSE IF ~IsSupportedSymbolFile(path) THEN CbRet("nil", <<>>, {})
  ELSE IF ignored THEN CbRet("nil", <<>>, {})
  ELSE IF IsBinaryFile(Opened(path)) THEN CbRet("nil", <<>>, {path})
  ELSE SymbolsOutcome(path, extractSymbols(path, Opened(path)))

\* The callback of FindSymbols
FindSymbolsCallback(path, isDir, cbErr, ignored) ==
  IF cbErr THEN CbRet("nil", <<>>, {})
  ELSE IF isDir
       THEN IF path # RootPath /\ ignored
            THEN CbRet("SkipDir", <<>>, {})
            ELSE CbRet("nil", <<>>, {})
  ELSE IF ~IsSupportedSymbolFile(path) THEN CbRet("nil", <<>>, {})
  ELSE IF ignored THEN CbRet("nil", <<>>, {})
  ELSE SymbolsOutcome(path, extractSymbols(path, Opened(path)))

\* The directory the operations are called with, and filepath.Join(dir, rel).
RootDir == B(<<"/","w">>)
RECURSIVE FullPath(_)
FullPath(path) ==
  IF path = <<>> THEN RootDir
  ELSE FullPath(Parent(path)) \o <<SLASH>> \o Base(path)

PathResult(path) == <<[Path |-> path, Line |-> 0, Column |-> 0, Match |-> <<>>]>>

\* The callback of GlobFiles matching the pattern against the base name
\* only, against which C16_GlobExactlyReachedMatching is checked.
GlobFilesCallbackBaseName(path, isDir, cbErr, ignored) ==
  IF cbErr THEN CbRet("nil", <<>>, {})
  ELSE IF isDir
       THEN IF path # RootPath /\ ignored
            THEN CbRet("SkipDir", <<>>, {})
            ELSE CbRet("nil", <<>>, {})
  ELSE IF ignored THEN CbRet("nil", <<>>, {})
  ELSE IF MatchString(re, Base(path)) THEN CbRet("nil", PathResult(path), {})
  ELSE CbRet("nil", <<>>, {})

\* The callback of GlobFiles
GlobFilesCallback(path, isDir, cbErr, ignored) ==
  IF cbErr THEN CbRet("nil", <<>>, {})
  ELSE IF isDir
       THEN IF path # RootPath /\ ignored
            THEN CbRet("SkipDir", <<>>, {})
            ELSE CbRet("nil", <<>>, {})
  ELSE IF ignored THEN CbRet("nil", <<>>, {})
  ELSE IF MatchString(re, FullPath(path)) THEN CbRet("nil", PathResult(path), {})
  ELSE CbRet("nil", <<>>, {})

\* The callback of GlobDirectories
GlobDirectoriesCallback(path, isDir, cbErr, ignored) ==
  IF cbErr THEN CbRet("nil", <<>>, {})
  ELSE IF ~isDir THEN CbRet("nil", <<>>, {})
  ELSE IF path # RootPath /\ ignored THEN CbRet("SkipDir", <<>>, {})
  ELSE IF path # RootPath /\ MatchString(re, FullPath(path))
       THEN CbRet("nil", PathResult(path), {})
  ELSE CbRet("nil", <<>>, {})

\* What the callback of Replace and of ReplaceSymbol does with the outcome
\* for a file: a file that cannot be read is skipped, the Change Records are
\* appended and a changed file is written back.
EditOutcome(path, e) ==
  IF e.err THEN CbRet("nil", <<>>, {path})
  ELSE CbWrite("nil", e.changes, {path}, e.write)

\* The callback of Replace
ReplaceCallback(path, isDir, cbErr, ignored) ==
  IF cbErr THEN CbRet("nil", <<>>, {})
  ELSE IF isDir
       THEN IF path # RootPath /\ ignored
            THEN CbRet("SkipDir", <<>>, {})
            ELSE CbRet("nil", <<>>, {})
  ELSE IF ignored THEN CbRet("nil", <<>>, {})
  ELSE IF IsBinaryFile(fs[path]) THEN CbRet("nil", <<>>, {path})
  ELSE EditOutcome(path, replaceInFile(path, fs[path], re, repl))

\* The callback of ReplaceSymbol
ReplaceSymbolCallback(path, isDir, cbErr, ignored) ==
  IF cbErr THEN CbRet("nil", <<>>, {})
  ELSE IF isDir
       THEN IF path # RootPath /\ ignored
            THEN CbRet("SkipDir", <<>>, {})
            ELSE CbRet("nil", <<>>, {})
  ELSE IF ~IsSupportedSymbolFile(path) THEN CbRet("nil", <<>>, {})
  ELSE IF ignored THEN CbRet("nil", <<>>, {})
  ELSE EditOutcome(path, replaceSymbolInFile(path, fs[path], pattern, re, repl))

Callback(path, isDir, cbErr, ignored) ==
  CASE op = "Find" -> FindCallback(path, isDir, cbErr, ignored)
    [] op = "FindSymbols" -> FindSymbolsCallback(path, isDir, cbErr, ignored)
    [] op = "GlobFiles" -> GlobFilesCallback(path, isDir, cbErr, ignored)
    [] op = "GlobDirectories" -> GlobDirectoriesCallback(path, isDir, cbErr, ignored)
    [] op = "Replace" -> ReplaceCallback(path, isDir, cbErr, ignored)
    [] op = "ReplaceSymbol" -> ReplaceSymbolCallback(path, isDir, cbErr, ignored)

----------------------------------------------------------------------------
(* filepath.Walk *)

\* os.Lstat(path) succeeds: the root by rootStat, an entry when its directory
\* can be searched.
LstatOk(p) == IF p = RootPath THEN rootStat = "ok" ELSE Opened(Parent(p)).perm = "rwx"

\* info.IsDir() of os.Stat, which follows a link, against which
\* C28_WalkTerminatesWithoutFollowingLinks is checked.
IsDirAtFollowingLinks(p) == LstatOk(p) /\ Opened(p).kind = "dir"

\* info.IsDir() of os.Lstat: a symbolic link is not a directory.
IsDirAt(p) == LstatOk(p) /\ LstatNode(p).kind = "dir"

\* readDirNames(p) succeeds
ListOk(p) == IsDirAt(p) /\ Opened(p).perm # "none"

\* The error the callback is called with: of Lstat, or of readDirNames
WalkFnErr(p) == ~LstatOk(p) \/ (IsDirAt(p) /\ ~ListOk(p))

Reversed(s) == [i \in 1..Len(s) |-> s[Len(s) + 1 - i]]

\* The names of the entries of a directory in the reverse of their lexical
\* order, against which C23_RecordsInTraversalOrder is checked.
readDirNamesReversed(d) ==
  Reversed(SortNames({Base(q) : q \in {x \in Tree : x # RootPath /\ Parent(x) = DirOf(d)
                                                    /\ fs[x].kind # "absent"}}))

\* readDirNames(dir): the names of its entries, sorted.
readDirNames(d) ==
  SortNames({Base(q) : q \in {x \in Tree : x # RootPath /\ Parent(x) = DirOf(d)
                                           /\ fs[x].kind # "absent"}})

\* filepath.Join(path, name) for each name
JoinAll(d, names) == [i \in 1..Len(names) |-> Append(d, names[i])]

ChildPaths(d) == JoinAll(d, readDirNames(d))

RECURSIVE DropEntriesOf(_, _)
DropEntriesOf(d, paths) ==
  IF paths = <<>> THEN <<>>
  ELSE IF Parent(Head(paths)) = d THEN DropEntriesOf(d, Tail(paths))
  ELSE paths

\* What is left to walk after the callback returned ret for p.
WalkNext(p, rest, ret) ==
  IF ret = "nil"
  THEN IF ListOk(p) THEN ChildPaths(p) \o rest ELSE rest
  ELSE IF ret = "SkipDir"
       THEN IF ~LstatOk(p) \/ IsDirAt(p) \/ p = RootPath THEN rest
            ELSE DropEntriesOf(Parent(p), rest)   \* the rest of p's directory
       ELSE <<>>                                  \* any other error ends the walk

----------------------------------------------------------------------------
(* The operations, step by step *)

Call(o, p) ==
  /\ pc = "idle"
  /\ pc' = "compile"
  /\ op' = o
  /\ pattern' = p
  /\ repl' = <<>>
  /\ before' = fs
  /\ UNCHANGED <<fs, rootStat, re, gi, todo, walkErr,
                 results, err, visited, examined, file, binary, last, writes,
                 output, args, dotenv, ran, memo, stedi>>

\* The compile step recording the error without returning, against which
\* C6_InvalidPatternFailsFirst is checked.
CompileOutcomeNoReturn(c) ==
  IF c.ok
  THEN re' = c.atoms /\ pc' = "stat" /\ err' = err
  ELSE re' = re /\ pc' = "stat" /\ err' = ErrInvalidPattern

\* if err != nil { return nil, fmt.Errorf("invalid regex pattern: %w", err) }
CompileOutcome(c) ==
  IF c.ok
  THEN re' = c.atoms /\ pc' = "stat" /\ err' = err
  ELSE re' = re /\ pc' = "done" /\ err' = ErrInvalidPattern

\* What a path names for os.Open: nothing when the root or a directory on the
\* way cannot be searched.
Accessible(p) ==
  rootStat = "ok" /\ \A k \in 0..(Len(p) - 1) : fs[SubSeq(p, 1, k)].perm = "rwx"

NodeAt(p) == IF Accessible(p) THEN fs[p] ELSE Absent

\* A call of IsBinaryFile(path)
CallIsBinaryFile(p) ==
  /\ pc = "idle"
  /\ pc' = "done"
  /\ op' = "IsBinaryFile"
  /\ file' = p
  /\ binary' = IsBinaryFile(NodeAt(p))
  /\ examined' = {<<"open", p>>}
  /\ UNCHANGED <<fs, rootStat, pattern, re, gi, todo, walkErr, results, err, visited,
                 repl, before, last, writes,
                 output, args, dotenv, ran, memo, stedi>>

\* re, err := regexp.Compile(pattern)
CompilePattern ==
  /\ pc = "compile"
  /\ CompileOutcome(Compile(pattern))
  /\ UNCHANGED <<fs, rootStat, op, pattern, gi, todo,
                 walkErr, results, visited, examined, file, binary,
                 repl, before, last, writes,
                 output, args, dotenv, ran, memo, stedi>>

\* The root check failing on every error of os.Stat, against which
\* C7_MissingRootFails is checked.
StatRootAnyError ==
  /\ pc = "stat"
  /\ examined' = examined \cup {<<"stat", RootPath>>}
  /\ IF rootStat # "ok"
     THEN pc' = "done" /\ err' = ErrNoDirectory
     ELSE pc' = "ignore" /\ err' = err
  /\ UNCHANGED <<fs, rootStat, op, pattern, re, gi,
                 todo, walkErr, results, visited, file, binary,
                 repl, before, last, writes,
                 output, args, dotenv, ran, memo, stedi>>

\* if _, err := os.Stat(dir); os.IsNotExist(err)
StatRoot ==
  /\ pc = "stat"
  /\ examined' = examined \cup {<<"stat", RootPath>>}
  /\ IF rootStat = "ENOENT"
     THEN pc' = "done" /\ err' = ErrNoDirectory
     ELSE pc' = "ignore" /\ err' = err
  /\ UNCHANGED <<fs, rootStat, op, pattern, re, gi,
                 todo, walkErr, results, visited, file, binary,
                 repl, before, last, writes,
                 output, args, dotenv, ran, memo, stedi>>

\* os.Stat(gitignorePath) succeeds
IgnoreStatOk ==
  rootStat = "ok" /\ fs[RootPath].perm = "rwx" /\ fs[GitignorePath].kind # "absent"

\* The ignore file taken for its rules whenever it exists, a failure to read
\* it passing unnoticed, against which C9_NoIgnoreFileNoRules is checked.
LoadIgnoreUnchecked ==
  /\ pc = "ignore"
  /\ gi' = IF IgnoreStatOk
           THEN [nil |-> FALSE, rules |-> CompileIgnoreLines(fs[GitignorePath].content)]
           ELSE NilGi
  /\ examined' = examined \cup {<<"stat", GitignorePath>>}
                   \cup (IF IgnoreStatOk THEN {<<"rules", GitignorePath>>} ELSE {})
  /\ pc' = "walk"
  /\ todo' = <<RootPath>>
  /\ UNCHANGED <<fs, rootStat, op, pattern, re, walkErr, results, err, visited, file, binary,
                 repl, before, last, writes,
                 output, args, dotenv, ran, memo, stedi>>

\* Load .gitignore if it exists, then start the walk at the root.
LoadIgnore ==
  /\ pc = "ignore"
  /\ gi' = IF IgnoreStatOk /\ CanOpen(fs[GitignorePath])
           THEN [nil |-> FALSE, rules |-> CompileIgnoreLines(fs[GitignorePath].content)]
           ELSE NilGi
  /\ examined' = examined \cup {<<"stat", GitignorePath>>}
                   \cup (IF IgnoreStatOk THEN {<<"rules", GitignorePath>>} ELSE {})
  /\ pc' = "walk"
  /\ todo' = <<RootPath>>
  /\ UNCHANGED <<fs, rootStat, op, pattern, re, walkErr, results, err, visited, file, binary,
                 repl, before, last, writes,
                 output, args, dotenv, ran, memo, stedi>>

\* gi != nil && gi.MatchesPath(relPath)
Ignored(p) == ~gi.nil /\ MatchesPath(gi.rules, p)

\* The walk after the callback gave cb for path p.
Visit(p, cb) ==
  /\ visited' = Append(visited, p)
  /\ results' = results \o cb.add
  /\ examined' = examined \cup {<<"lstat", p>>}
                   \cup (IF IsDirAt(p) THEN {<<"list", p>>} ELSE {})
                   \cup {<<"open", q>> : q \in cb.opens}
  /\ todo' = WalkNext(p, Tail(todo), cb.ret)
  /\ walkErr' = IF cb.ret \in {"nil", "SkipDir"} THEN walkErr ELSE cb.ret
  /\ fs' = IF cb.write = <<>> THEN fs ELSE [fs EXCEPT ![p].content = cb.write[1]]

\* One call of the walk callback, for the next path of the walk.
WalkStep ==
  /\ pc = "walk"
  /\ todo # <<>>
  /\ Visit(Head(todo), Callback(Head(todo), IsDirAt(Head(todo)), WalkFnErr(Head(todo)),
                                Ignored(Head(todo))))
  /\ UNCHANGED <<rootStat, pc, op, pattern, re, gi, err, file, binary,
                 repl, before, last, writes,
                 output, args, dotenv, ran, memo, stedi>>

\* filepath.Walk returned: if err != nil { return nil, err }; return results, nil
WalkDone ==
  /\ pc = "walk"
  /\ todo = <<>>
  /\ pc' = "done"
  /\ err' = walkErr
  /\ results' = IF walkErr = "nil" THEN results ELSE <<>>
  /\ UNCHANGED <<fs, rootStat, op, pattern, re, gi,
                 todo, walkErr, visited, examined, file, binary,
                 repl, before, last, writes,
                 output, args, dotenv, ran, memo, stedi>>

\* The caller takes the result and the results stay behind for the next
\* call, against which C18_SameCallSameResult is checked.
ReturnKeepingResults ==
  /\ pc = "done"
  /\ pc' = "idle"
  /\ op' = "none"
  /\ pattern' = <<>>
  /\ re' = <<>>
  /\ gi' = NilGi
  /\ todo' = <<>>
  /\ walkErr' = "nil"
  /\ err' = "nil"
  /\ visited' = <<>>
  /\ examined' = {}
  /\ file' = <<>>
  /\ binary' = FALSE
  /\ repl' = <<>>
  /\ UNCHANGED <<fs, rootStat, results, before, last, writes,
                 output, args, dotenv, ran, memo, stedi>>

\* The caller takes the result; the next call starts afresh.
Return ==
  /\ pc = "done"
  /\ pc' = "idle"
  /\ op' = "none"
  /\ pattern' = <<>>
  /\ re' = <<>>
  /\ gi' = NilGi
  /\ todo' = <<>>
  /\ walkErr' = "nil"
  /\ results' = <<>>
  /\ err' = "nil"
  /\ visited' = <<>>
  /\ examined' = {}
  /\ file' = <<>>
  /\ binary' = FALSE
  /\ repl' = <<>>
  /\ UNCHANGED <<fs, rootStat, before, last, writes,
                 output, args, dotenv, ran, memo, stedi>>

Next ==
  \/ \E o \in Ops : \E p \in PatternsFor(o) : Call(o, p)
  \/ \E p \in FilePaths : CallIsBinaryFile(p)
  \/ CompilePattern
  \/ StatRoot
  \/ LoadIgnore
  \/ WalkStep
  \/ WalkDone
  \/ Return

Spec == Init /\ [][Next]_vars

----------------------------------------------------------------------------
(* Replace and ReplaceSymbol, and a caller that remembers its last call *)

\* The literal strings Replace and ReplaceSymbol are called with.
LHello == B(<<"h","e","l","l","o">>)
LHi == B(<<"h","i">>)
LD == B(<<"d">>)
LQ == B(<<"q">>)

\* <<pattern, replacement>>
ReplacePairs == {<<LHello, LHi>>, <<LHi, LHello>>, <<LD, LQ>>, <<LQ, LD>>}
\* <<oldName, newName>>
RenamePairs == {<<LHello, LHi>>}
SearchPatterns == {LHello, LHi, LD}

\* "hi hello\n"
CHiHello == Text(B(<<"h","i"," ","h","e","l","l","o">>)) \o NLText
\* "hello", 507 bytes, a NUL as the 513th byte, "\n"
CNulShift == Text(B(<<"h","e","l","l","o">>)) \o Fill(Xb, BinaryPrefix - 5)
               \o Text(<<NUL>>) \o NLText
\* "hello", 506 bytes, a NUL as the 512th byte, "\n"
CNulLast == Text(B(<<"h","e","l","l","o">>)) \o Fill(Xb, BinaryPrefix - 6)
              \o Text(<<NUL>>) \o NLText
\* "d hello\n"
CKD == Text(B(<<"d"," ","h","e","l","l","o">>)) \o NLText
\* "func hello() {}\nhello()\nhello2()\n"
CRename == Text(B(<<"f","u","n","c"," ","h","e","l","l","o","(",")"," ","{","}">>)) \o NLText
             \o Text(B(<<"h","e","l","l","o","(",")">>)) \o NLText
             \o Text(B(<<"h","e","l","l","o","2","(",")">>)) \o NLText

\* The trees a run of the Mutator may start from.
MutatorTrees ==
  {MkFs("rwx", ign, a, "rwx", File(CKD), File(CRename)) :
     ign \in {Absent, File(IgnD), File(IgnDName)},
     a \in {File(CHello), File(CHiHello), File(CNulShift), File(CNulLast),
            Unreadable(CHello)}}

\* The most calls of Replace and ReplaceSymbol in one run.
MaxWrites == 2

InitMutator == rootStat = "ok" /\ fs \in MutatorTrees /\ Fresh

\* Replace(dir, pattern, replacement) or ReplaceSymbol(dir, oldName, newName)
\* is called.
CallReplace(o, p, r) ==
  /\ pc = "idle"
  /\ writes < MaxWrites
  /\ pc' = "compile"
  /\ op' = o
  /\ pattern' = p
  /\ repl' = r
  /\ before' = fs
  /\ writes' = writes + 1
  /\ UNCHANGED <<fs, rootStat, re, gi, todo, walkErr,
                 results, err, visited, examined, file, binary, last,
                 output, args, dotenv, ran, memo, stedi>>

\* The caller takes the result and remembers the call it made.
ReturnNoted ==
  /\ pc = "done"
  /\ pc' = "idle"
  /\ last' = [op |-> op, pattern |-> pattern, repl |-> repl, before |-> before]
  /\ op' = "none"
  /\ pattern' = <<>>
  /\ re' = <<>>
  /\ gi' = NilGi
  /\ todo' = <<>>
  /\ walkErr' = "nil"
  /\ results' = <<>>
  /\ err' = "nil"
  /\ visited' = <<>>
  /\ examined' = {}
  /\ repl' = <<>>
  /\ before' = fs
  /\ UNCHANGED <<fs, rootStat, file, binary, writes,
                 output, args, dotenv, ran, memo, stedi>>

NextMutator ==
  \/ \E a \in ReplacePairs : CallReplace("Replace", a[1], a[2])
  \/ \E a \in RenamePairs : CallReplace("ReplaceSymbol", a[1], a[2])
  \/ \E p \in SearchPatterns : Call("Find", p)
  \/ CompilePattern
  \/ StatRoot
  \/ LoadIgnore
  \/ WalkStep
  \/ WalkDone
  \/ ReturnNoted

SpecMutator == InitMutator /\ [][NextMutator]_vars

----------------------------------------------------------------------------
(* FormatEmacsOutput called on sequences of results *)

\* The results FormatEmacsOutput is called with; Path and Match are strings.
RHi == [Path |-> B(<<"a">>), Line |-> 1, Column |-> 0, Match |-> B(<<"h","i">>)]
RFar == [Path |-> B(<<"d","/","k">>), Line |-> 12, Column |-> 105, Match |-> B(<<"x",":","y">>)]
RPath == [Path |-> B(<<"m",".","p","y">>), Line |-> 0, Column |-> 0, Match |-> <<>>]
RCall == [Path |-> B(<<"a">>), Line |-> 20, Column |-> 2, Match |-> B(<<"h","i","(",")">>)]
RTwoLines == [Path |-> B(<<"a">>), Line |-> 3, Column |-> 0,
              Match |-> B(<<"x">>) \o <<NL>> \o B(<<"y">>)]
SomeResults == {RHi, RFar, RPath, RCall, RTwoLines}

\* The most results in one call.
MaxResults == 3

ResultSeqs == UNION {[1..n -> SomeResults] : n \in 0..MaxResults}

InitFormat ==
  /\ rootStat = "ok"
  /\ fs = MkFs("rwx", Absent, File(CHello), "rwx", File(CK), File(CGo))
  /\ Fresh

\* A call of FormatEmacsOutput(results)
CallFormatEmacsOutput(rs) ==
  /\ pc = "idle"
  /\ pc' = "done"
  /\ op' = "FormatEmacsOutput"
  /\ results' = rs
  /\ output' = FormatEmacsOutput(rs)
  /\ UNCHANGED <<fs, rootStat, pattern, re, gi, todo, walkErr, err, visited, examined,
                 file, binary, repl, before, last, writes, args, dotenv, ran, memo, stedi>>

NextFormat ==
  \/ \E rs \in ResultSeqs : CallFormatEmacsOutput(rs)
  \/ Return

SpecFormat == InitFormat /\ [][NextFormat]_vars

----------------------------------------------------------------------------
(* Find and FindSymbols called again, other operations between the calls *)

\* The trees a run of repeated searches may start from.
RepeatTrees ==
  {MkFs("rwx", File(IgnDName), a, "rwx", File(CKD), File(CRename)) :
     a \in {File(CHello), File(CNulLast)}}

RepeatPairs == {<<LHello, LHi>>, <<LHi, LHello>>, <<LD, LQ>>, <<LQ, LD>>}

InitRepeat == rootStat = "ok" /\ fs \in RepeatTrees /\ Fresh

\* The caller takes the result of Find or FindSymbols and keeps it, with the
\* arguments and the tree of the call, to compare a later call with it.
ReturnRemembered ==
  /\ op \in {"Find", "FindSymbols"}
  /\ memo' = [op |-> op, pattern |-> pattern, fs |-> fs, rootStat |-> rootStat,
              results |-> results, err |-> err, writes |-> writes]
  /\ pc = "done"
  /\ pc' = "idle"
  /\ op' = "none"
  /\ pattern' = <<>>
  /\ re' = <<>>
  /\ gi' = NilGi
  /\ todo' = <<>>
  /\ walkErr' = "nil"
  /\ results' = <<>>
  /\ err' = "nil"
  /\ visited' = <<>>
  /\ examined' = {}
  /\ file' = <<>>
  /\ binary' = FALSE
  /\ repl' = <<>>
  /\ UNCHANGED <<fs, rootStat, before, last, writes, output, args, dotenv, ran, stedi>>

NextRepeat ==
  \/ \E o \in {"Find", "FindSymbols"} : \E p \in {LHello, LD, PBad} : Call(o, p)
  \/ \E a \in RepeatPairs : CallReplace("Replace", a[1], a[2])
  \/ CompilePattern
  \/ StatRoot
  \/ LoadIgnore
  \/ WalkStep
  \/ WalkDone
  \/ Return
  \/ ReturnNoted
  \/ ReturnRemembered

SpecRepeat == InitRepeat /\ [][NextRepeat]_vars

----------------------------------------------------------------------------
(* run, the command routing of the vtk command *)

\* "\n\nAvailable commands:\n  format    Format input data ..." to the end of the
\* message
AvailableCommands ==
  <<10, 10>>
    \o B(<<"A","v","a","i","l","a","b","l","e"," ","c","o","m","m">>)
    \o B(<<"a","n","d","s",":">>)
    \o <<10>>
    \o B(<<" "," ","f","o","r","m","a","t"," "," "," "," ","F","o">>)
    \o B(<<"r","m","a","t"," ","i","n","p","u","t"," ","d","a","t">>)
    \o B(<<"a"," ","(","s","u","p","p","o","r","t","s"," ","-","f">>)
    \o B(<<" ","f","l","a","g",")">>)
    \o <<10>>
    \o B(<<" "," ","f","i","n","d"," "," "," "," "," "," ","S","e">>)
    \o B(<<"a","r","c","h"," ","f","o","r"," ","p","a","t","t","e">>)
    \o B(<<"r","n"," ","i","n"," ","f","i","l","e","s"," ","(","r">>)
    \o B(<<"e","s","p","e","c","t","s"," ",".","g","i","t","i","g">>)
    \o B(<<"n","o","r","e",")">>)
    \o <<10>>
    \o B(<<" "," ","g","l","o","b"," "," "," "," "," "," ","L","i">>)
    \o B(<<"s","t"," ","f","i","l","e","s","/","d","i","r","e","c">>)
    \o B(<<"t","o","r","i","e","s"," ","m","a","t","c","h","i","n">>)
    \o B(<<"g"," ","r","e","g","e","x"," ","p","a","t","t","e","r">>)
    \o B(<<"n">>)

\* "usage: vtk <command> [options]"
UsageLine ==
  B(<<"u","s","a","g","e",":"," ","v","t","k"," ">>)
    \o <<60>>
    \o B(<<"c","o","m","m","a","n","d">>)
    \o <<62>>
    \o B(<<" ","[","o","p","t","i","o","n","s","]">>)

\* "unknown command: "
UnknownCommandPrefix ==
  B(<<"u","n","k","n","o","w","n"," ","c","o","m","m","a","n">>)
    \o B(<<"d",":"," ">>)

\* "unable to load any environment settings, please have a .env file in cwd: "
EnvFailurePrefix ==
  B(<<"u","n","a","b","l","e"," ","t","o"," ","l","o","a","d">>)
    \o B(<<" ","a","n","y"," ","e","n","v","i","r","o","n","m","e">>)
    \o B(<<"n","t"," ","s","e","t","t","i","n","g","s">>)
    \o <<44>>
    \o B(<<" ","p","l","e","a","s","e"," ","h","a","v","e"," ","a">>)
    \o B(<<" ",".","e","n","v"," ","f","i","l","e"," ","i","n"," ">>)
    \o B(<<"c","w","d",":"," ">>)

\* "open .env: no such file or directory", the error of godotenv.Load without
\* a .env file
NoEnvFile ==
  B(<<"o","p","e","n"," ",".","e","n","v",":"," ","n","o"," ">>)
    \o B(<<"s","u","c","h"," ","f","i","l","e"," ","o","r"," ","d">>)
    \o B(<<"i","r","e","c","t","o","r","y">>)


\* The command line: the program name, then up to two arguments.
ProgramName == B(<<"v","t","k">>)
Words ==
  {B(<<"f","o","r","m","a","t">>), B(<<"f","i","n","d">>), B(<<"g","l","o","b">>),
   B(<<"s","t","e","d","i">>), B(<<"u","n","k","n","o","w","n">>),
   B(<<"f","o","o","b","a","r">>), B(<<"F","i","n","d">>), <<>>}

\* The most arguments after the program name.
MaxArgs == 2

CommandLines == {<<ProgramName>> \o w : w \in UNION {[1..n -> Words] : n \in 0..MaxArgs}}

\* The case labels of the switch
Commands ==
  {B(<<"f","o","r","m","a","t">>), B(<<"f","i","n","d">>), B(<<"g","l","o","b">>),
   B(<<"s","t","e","d","i">>)}

\* %q of a string of printable ASCII: in double quotes, a double quote and a
\* backslash each after a backslash.
RECURSIVE Escaped(_)
Escaped(s) ==
  IF s = <<>> THEN <<>>
  ELSE (IF Head(s) \in {34, 92} THEN <<92, Head(s)>> ELSE <<Head(s)>>) \o Escaped(Tail(s))

Quote(s) == <<34>> \o Escaped(s) \o <<34>>

InitRun ==
  /\ rootStat = "ok"
  /\ fs = MkFs("rwx", Absent, File(CHello), "rwx", File(CK), File(CGo))
  /\ Fresh

\* run() is called with os.Args = a, in a working directory where
\* godotenv.Load succeeds exactly if d.
CallRun(a, d) ==
  /\ pc = "idle"
  /\ pc' = "args"
  /\ op' = "run"
  /\ args' = a
  /\ dotenv' = d
  /\ ran' = "none"
  /\ output' = <<>>
  /\ UNCHANGED <<fs, rootStat, pattern, re, gi, todo, walkErr, results, err, visited,
                 examined, file, binary, repl, before, last, writes, memo, stedi>>

\* if len(os.Args) < 2 { return fmt.Errorf("usage: ...") }
RunCheckArgs ==
  /\ pc = "args"
  /\ pc' = IF Len(args) < 2 THEN "done" ELSE "dotenv"
  /\ err' = IF Len(args) < 2 THEN "usage" ELSE err
  /\ output' = IF Len(args) < 2 THEN UsageLine \o AvailableCommands ELSE output
  /\ UNCHANGED <<fs, rootStat, op, pattern, re, gi, todo, walkErr, results, visited,
                 examined, file, binary, repl, before, last, writes, args, dotenv, ran,
                 memo, stedi>>

\* err := godotenv.Load(); if err != nil { return fmt.Errorf("unable to load ...") }
RunLoadEnv ==
  /\ pc = "dotenv"
  /\ pc' = IF dotenv THEN "switch" ELSE "done"
  /\ err' = IF dotenv THEN err ELSE "dotenv"
  /\ output' = IF dotenv THEN output ELSE EnvFailurePrefix \o NoEnvFile
  /\ UNCHANGED <<fs, rootStat, op, pattern, re, gi, todo, walkErr, results, visited,
                 examined, file, binary, repl, before, last, writes, args, dotenv, ran,
                 memo, stedi>>

\* switch command: a subcommand runs on os.Args[2:] and run returns its
\* error e, or the default case returns the unknown command error.
RunSwitch(e) ==
  /\ pc = "switch"
  /\ pc' = "done"
  /\ ran' = IF args[2] \in Commands THEN args[2] ELSE ran
  /\ err' = IF args[2] \in Commands THEN e ELSE "unknown command"
  /\ output' = IF args[2] \in Commands THEN output
               ELSE UnknownCommandPrefix \o Quote(args[2]) \o AvailableCommands
  /\ UNCHANGED <<fs, rootStat, op, pattern, re, gi, todo, walkErr, results, visited,
                 examined, file, binary, repl, before, last, writes, args, dotenv, memo, stedi>>

\* main takes the error; the next call starts afresh.
ReturnRun ==
  /\ pc = "done"
  /\ op = "run"
  /\ pc' = "idle"
  /\ op' = "none"
  /\ err' = "nil"
  /\ args' = <<>>
  /\ dotenv' = TRUE
  /\ ran' = "none"
  /\ output' = <<>>
  /\ UNCHANGED <<fs, rootStat, pattern, re, gi, todo, walkErr, results, visited,
                 examined, file, binary, repl, before, last, writes, memo, stedi>>

NextRun ==
  \/ \E a \in CommandLines : \E d \in BOOLEAN : CallRun(a, d)
  \/ RunCheckArgs
  \/ RunLoadEnv
  \/ \E e \in {"nil", "subcommand"} : RunSwitch(e)
  \/ ReturnRun

SpecRun == InitRun /\ [][NextRun]_vars

----------------------------------------------------------------------------
(* extractSymbols called on single files *)

\* Contents whose lines come near to satisfying two category patterns of a
\* recogniser, or hold the name of the symbol before its definition.
\* "func f() {}\n"
SGoNameInKeyword ==
  Text(B(<<"f","u","n","c"," ","f","(",")"," ","{","}">>))
  \o NLText
\* "func (hello T) hello() {}\n"
SGoReceiver ==
  Text(B(<<"f","u","n","c"," ","(","h","e","l","l","o"," ","T",")"," ","h","e","l","l","o","(",")"," ","{","}">>))
  \o NLText
\* "type func struct {\n"
SGoTypeFunc ==
  Text(B(<<"t","y","p","e"," ","f","u","n","c"," ","s","t","r","u","c","t"," ","{">>))
  \o NLText
\* "var type T struct {\n"
SGoVarType ==
  Text(B(<<"v","a","r"," ","t","y","p","e"," ","T"," ","s","t","r","u","c","t"," ","{">>))
  \o NLText
\* "  const func = 0\n"
SGoConstFunc ==
  Text(B(<<" "," ","c","o","n","s","t"," ","f","u","n","c"," ","="," ","0">>))
  \o NLText
\* "func type() {}\n"
SGoFuncType ==
  Text(B(<<"f","u","n","c"," ","t","y","p","e","(",")"," ","{","}">>))
  \o NLText
\* "func a() {}\ntype a struct {\nvar a = 0\n"
SGoThree ==
  Text(B(<<"f","u","n","c"," ","a","(",")"," ","{","}">>))
  \o NLText
  \o Text(B(<<"t","y","p","e"," ","a"," ","s","t","r","u","c","t"," ","{">>))
  \o NLText
  \o Text(B(<<"v","a","r"," ","a"," ","="," ","0">>))
  \o NLText
\* "export class function foo() {\n"
SJsExportClassFunction ==
  Text(B(<<"e","x","p","o","r","t"," ","c","l","a","s","s"," ","f","u","n","c","t","i","o","n"," ","f","o","o","(",")"," ","{">>))
  \o NLText
\* "export async function foo(x) {\n"
SJsExportAsync ==
  Text(B(<<"e","x","p","o","r","t"," ","a","s","y","n","c"," ","f","u","n","c","t","i","o","n"," ","f","o","o","(","x",")"," ","{">>))
  \o NLText
\* "  foo(a) {\n"
SJsMethod ==
  Text(B(<<" "," ","f","o","o","(","a",")"," ","{">>))
  \o NLText
\* "function (a) {\n"
SJsAnonymous ==
  Text(B(<<"f","u","n","c","t","i","o","n"," ","(","a",")"," ","{">>))
  \o NLText
\* "const foo (a) {\n"
SJsConstCall ==
  Text(B(<<"c","o","n","s","t"," ","f","o","o"," ","(","a",")"," ","{">>))
  \o NLText
\* "class let x\n"
SJsClassLet ==
  Text(B(<<"c","l","a","s","s"," ","l","e","t"," ","x">>))
  \o NLText
\* "var a = 0\n"
SJsVarInName ==
  Text(B(<<"v","a","r"," ","a"," ","="," ","0">>))
  \o NLText
\* "def f(x=0):\n"
SPyDefault ==
  Text(B(<<"d","e","f"," ","f","(","x","=","0",")",":">>))
  \o NLText
\* "class = 0\n"
SPyClassAssigned ==
  Text(B(<<"c","l","a","s","s"," ","="," ","0">>))
  \o NLText
\* "x = def f(a)\n"
SPyAssignedDef ==
  Text(B(<<"x"," ","="," ","d","e","f"," ","f","(","a",")">>))
  \o NLText
\* "def = 0\n"
SPyDefAssigned ==
  Text(B(<<"d","e","f"," ","="," ","0">>))
  \o NLText
\* "def class(x):\n"
SPyDefClass ==
  Text(B(<<"d","e","f"," ","c","l","a","s","s","(","x",")",":">>))
  \o NLText
\* "class def f(x):\n"
SPyClassDef ==
  Text(B(<<"c","l","a","s","s"," ","d","e","f"," ","f","(","x",")",":">>))
  \o NLText
\* "  def e(x):\n"
SPyNameInKeyword ==
  Text(B(<<" "," ","d","e","f"," ","e","(","x",")",":">>))
  \o NLText
\* "CREATE TABLE VIEW x\n"
SSqlTableView ==
  Text(B(<<"C","R","E","A","T","E"," ","T","A","B","L","E"," ","V","I","E","W"," ","x">>))
  \o NLText
\* "create view table t\n"
SSqlViewTable ==
  Text(B(<<"c","r","e","a","t","e"," ","v","i","e","w"," ","t","a","b","l","e"," ","t">>))
  \o NLText
\* "CREATE FUNCTION TABLE t\n"
SSqlFunctionTable ==
  Text(B(<<"C","R","E","A","T","E"," ","F","U","N","C","T","I","O","N"," ","T","A","B","L","E"," ","t">>))
  \o NLText
\* "CREATE TABLE a (x int)\n"
SSqlNameInKeyword ==
  Text(B(<<"C","R","E","A","T","E"," ","T","A","B","L","E"," ","a"," ","(","x"," ","i","n","t",")">>))
  \o NLText
\* "CREATE PROCEDURE p()\n"
SSqlProcedure ==
  Text(B(<<"C","R","E","A","T","E"," ","P","R","O","C","E","D","U","R","E"," ","p","(",")">>))
  \o NLText

SymbolContents ==
  {SGoNameInKeyword, SGoReceiver, SGoTypeFunc, SGoVarType,
   SGoConstFunc, SGoFuncType, SGoThree, SJsExportClassFunction,
   SJsExportAsync, SJsMethod, SJsAnonymous, SJsConstCall,
   SJsClassLet, SJsVarInName, SPyDefault, SPyClassAssigned,
   SPyAssignedDef, SPyDefAssigned, SPyDefClass, SPyClassDef,
   SPyNameInKeyword, SSqlTableView, SSqlViewTable, SSqlFunctionTable,
   SSqlNameInKeyword, SSqlProcedure}

\* The file extractSymbols is called on: f with the extension ext.
SymbolFile(ext) == <<B(<<"f">>) \o ext>>

InitSymbols ==
  /\ rootStat = "ok"
  /\ fs = MkFs("rwx", Absent, File(CHello), "rwx", File(CK), File(CGo))
  /\ Fresh

\* A call of extractSymbols(path) on a file of extension ext that holds c
CallExtractSymbols(ext, c) ==
  /\ pc = "idle"
  /\ pc' = "done"
  /\ op' = "extractSymbols"
  /\ file' = SymbolFile(ext)
  /\ before' = [p \in {SymbolFile(ext)} |-> File(c)]
  /\ results' = extractSymbols(SymbolFile(ext), File(c)).symbols
  /\ examined' = {<<"open", SymbolFile(ext)>>}
  /\ UNCHANGED <<fs, rootStat, pattern, re, gi, todo, walkErr, err, visited, binary,
                 repl, last, writes, output, args, dotenv, ran, memo, stedi>>

NextSymbols ==
  \/ \E ext \in {ExtGo, ExtTs, ExtTsx, ExtJs, ExtJsx, ExtPy, ExtSql} :
        \E c \in SymbolContents : CallExtractSymbols(ext, c)
  \/ Return

SpecSymbols == InitSymbols /\ [][NextSymbols]_vars

----------------------------------------------------------------------------
(* What the properties below speak of *)

\* The records returned for path p, in order.
RecordsOf(p) == SelectSeq(results, LAMBDA r : r.Path = p)

\* A NUL byte lies at an offset below 512 of the content.
NulInPrefix(content) ==
  \E i \in 1..Len(content) :
     content[i][1] = NUL /\ RunsLen(SubSeq(content, 1, i - 1)) < 512

\* The lines of a content: the bytes between newline delimiters.
LinesOf(content) == ScanPieces(content)

\* Every line of the content fits the line scanner's buffer.
NoLongLine(content) ==
  \A i \in 1..Len(LinesOf(content)) : RunsLen(LinesOf(content)[i]) < MaxScanTokenSize

\* One record per line of lines[i..] on which the compiled pattern matches:
\* its 1-based line number, the offset of the leftmost match, the whole line.
RECURSIVE OnePerMatchingLine(_, _, _)
OnePerMatchingLine(p, lines, i) ==
  IF i > Len(lines) THEN <<>>
  ELSE (IF MatchPositions(re, Expand(lines[i])) = {} THEN <<>>
        ELSE <<[Path |-> p, Line |-> i,
                Column |-> Least(MatchPositions(re, Expand(lines[i]))) - 1,
                Match |-> Expand(lines[i])]>>)
       \o OnePerMatchingLine(p, lines, i + 1)

\* The patterns that do not compile.
InvalidPatterns == {PBad}

\* The operation ran to its return with a pattern that compiles on a root
\* that exists.
Searched(o) == pc = "done" /\ op = o /\ pattern \notin InvalidPatterns /\ rootStat = "ok"

\* A file the traversal of a searchable tree reaches and can read.
ReadableFile(p) == p \in FilePaths /\ Accessible(p) /\ CanOpen(fs[p])

----------------------------------------------------------------------------
(* Properties *)

\* C1: Find returns, for every readable, non-ignored, non-binary file under
\* the root and every valid pattern, exactly one record per line on which the
\* pattern matches, with the 1-based line number, the byte offset of the
\* leftmost match and the whole line without its newline.
C1_OneRecordPerMatchingLine ==
  Searched("Find") =>
    \A p \in FilePaths :
       (ReadableFile(p) /\ ~Ignored(p) /\ ~NulInPrefix(fs[p].content))
         => RecordsOf(p) = OnePerMatchingLine(p, LinesOf(fs[p].content), 1)

\* C2: when the rule set has a trailing-slash rule matching directory d, no
\* record returned by an operation has a path under d, whatever the files
\* under d hold and whatever other rules the ignore file has.
C2_TrailingSlashRuleExcludesSubtree ==
  (/\ pc = "done"
   /\ op \in Ops
   /\ \E i \in 1..Len(gi.rules) :
         /\ gi.rules[i].dirOnly
         /\ ~gi.rules[i].negate
         /\ CoreMatch(gi.rules[i].core, 1, Base(DDir), 1))
    => \A i \in 1..Len(results) : ~IsUnder(results[i].Path, DDir)

\* C3: Find never returns a record whose path is a file with a NUL byte
\* within its first 512 bytes, whatever the pattern and whether or not its
\* lines match.
C3_NoBinaryFileInResults ==
  (pc \in {"walk", "done"} /\ op = "Find")
    => \A i \in 1..Len(results) : ~NulInPrefix(fs[results[i].Path].content)

\* A binary file with a matching line, not ignored, was opened by Find and
\* gave no record.
C3_Witness ==
  /\ Searched("Find")
  /\ pattern = PHello
  /\ fs[ATxt] = File(CNulEarly)
  /\ ~Ignored(ATxt)
  /\ <<"open", ATxt>> \in examined
  /\ RecordsOf(ATxt) = <<>>
  /\ results # <<>>

\* C4: IsBinaryFile returns true exactly when the file can be opened and a
\* NUL byte occurs among the first 512 bytes of its content; false for an
\* empty file, a file that cannot be opened, a file without NUL and a file
\* whose NUL bytes lie at offset 512 or later.
C4_BinaryExactlyWhenNulInPrefix ==
  (pc = "done" /\ op = "IsBinaryFile")
    => binary = (CanOpen(NodeAt(file)) /\ NulInPrefix(fs[file].content))

\* IsBinaryFile returned true for the file whose only NUL is its 512th byte.
C4_Witness ==
  /\ pc = "done"
  /\ op = "IsBinaryFile"
  /\ file = ATxt
  /\ fs[ATxt] = File(CNul511)
  /\ binary

\* C5: Find and FindSymbols return an error if and only if the root is
\* missing or the pattern does not compile; otherwise, also when every
\* candidate is ignored, unreadable or binary, they return a result and nil.
C5_ErrorIffMissingOrInvalid ==
  (pc = "done" /\ op \in {"Find", "FindSymbols"})
    => ((err # "nil") <=> (rootStat = "ENOENT" \/ pattern \in InvalidPatterns))

\* Find ended without records and without error where the only file with a
\* match could not be read.
C5_Witness ==
  /\ Searched("Find")
  /\ pattern = PFunc
  /\ fs[DSGo] = Unreadable(CGo)
  /\ <<"open", DSGo>> \in examined
  /\ results = <<>>
  /\ err = "nil"

\* C6: for Find, FindSymbols, GlobFiles and GlobDirectories a pattern that
\* does not compile gives the invalid-pattern error before the root is
\* examined, any entry visited or any file opened, also when the root is
\* missing, and no results.
C6_InvalidPatternFailsFirst ==
  (pc = "done" /\ op \in Ops /\ pattern \in InvalidPatterns)
    => /\ err = ErrInvalidPattern
       /\ examined = {}
       /\ visited = <<>>
       /\ results = <<>>

\* An invalid pattern was rejected on a missing root.
C6_Witness ==
  /\ pc = "done"
  /\ op = "GlobFiles"
  /\ pattern = PBad
  /\ rootStat = "ENOENT"
  /\ err = ErrInvalidPattern

\* Read permission on the root is missing: stat of it or listing it fails.
RootUnreadable == rootStat = "EACCES" \/ (rootStat = "ok" /\ fs[RootPath].perm = "none")

\* C7 (as stated): a root that does not exist, or that exists but cannot be
\* read, makes every operation fail with an error.
C7_UnreadableOrMissingRootFails ==
  (pc = "done" /\ op \in Ops /\ (rootStat = "ENOENT" \/ RootUnreadable))
    => err # "nil"

\* C7 (amended): a root that does not exist makes every operation fail with
\* an error; a root that exists but cannot be read gives, for a valid
\* pattern, an empty result and no error.
C7_MissingRootFails ==
  (pc = "done" /\ op \in Ops)
    => /\ rootStat = "ENOENT" => (err # "nil" /\ results = <<>>)
       /\ (RootUnreadable /\ pattern \notin InvalidPatterns)
            => (err = "nil" /\ results = <<>>)

\* An operation with a valid pattern failed on a missing root.
C7_Witness ==
  /\ pc = "done"
  /\ op = "FindSymbols"
  /\ pattern = PHello
  /\ rootStat = "ENOENT"
  /\ err = ErrNoDirectory

\* The records a file owes to the operation that ran: for Find one per
\* matching line, for FindSymbols one per symbol whose name matches.
OwedRecords(p) ==
  IF op = "Find" THEN OnePerMatchingLine(p, LinesOf(fs[p].content), 1)
  ELSE SymbolResults(p, extractSymbols(p, fs[p]).symbols, 1)

\* A file that owes its records: reached by the traversal, read in full,
\* not ignored and, for Find, not binary; for FindSymbols, a symbol file.
OwesRecords(p) ==
  /\ ReadableFile(p)
  /\ ~Ignored(p)
  /\ IF op = "Find"
     THEN ~NulInPrefix(fs[p].content) /\ NoLongLine(fs[p].content)
     ELSE IsSupportedSymbolFile(p)

\* C8: a directory or file below the root that cannot be opened or read is
\* skipped by Find and FindSymbols: the traversal goes on, the error is nil
\* and the records owed to the other readable, non-ignored files are there.
C8_UnreadableEntriesSkipped ==
  (Searched("Find") \/ Searched("FindSymbols"))
    => /\ err = "nil"
       /\ \A p \in FilePaths :
            /\ OwesRecords(p) => RecordsOf(p) = OwedRecords(p)
            /\ ~ReadableFile(p) => RecordsOf(p) = <<>>

\* Find met a file it could not open and a directory it could not list, and
\* still returned the records of the file walked after them.
C8_Witness ==
  /\ Searched("Find")
  /\ pattern = PHello
  /\ fs[ATxt] = Unreadable(CHello)
  /\ fs[DDir].perm = "none"
  /\ <<"open", ATxt>> \in examined
  /\ <<"list", DDir>> \in examined
  /\ err = "nil"
  /\ RecordsOf(ATxt) = <<>>
  /\ Len(RecordsOf(MPy)) = 2

\* The paths present in the tree that a traversal without ignore rules reaches.
Reached(p) == fs[p].kind # "absent" /\ Accessible(p)

\* C9: without an ignore file, or with one that cannot be taken in, Find and
\* FindSymbols go on with an empty rule set: no path is excluded by ignore
\* rules and no error comes of the ignore file.
C9_NoIgnoreFileNoRules ==
  ((Searched("Find") \/ Searched("FindSymbols")) /\ ~CanOpen(fs[GitignorePath]))
    => /\ err = "nil"
       /\ gi.rules = <<>>
       /\ \A p \in Tree : Reached(p) => \E i \in 1..Len(visited) : visited[i] = p
       /\ \A p \in FilePaths :
            (ReadableFile(p) /\ OwedRecords(p) # <<>>
               /\ (op = "Find" => ~NulInPrefix(fs[p].content) /\ NoLongLine(fs[p].content))
               /\ (op = "FindSymbols" => IsSupportedSymbolFile(p)))
              => RecordsOf(p) # <<>>

\* Find ran where the ignore file exists, names d/ and cannot be read, and
\* returned the record of the file under d.
C9_Witness ==
  /\ Searched("Find")
  /\ pattern = PHello
  /\ fs[GitignorePath] = Unreadable(IgnD)
  /\ <<"rules", GitignorePath>> \in examined
  /\ RecordsOf(DKTxt) # <<>>
  /\ err = "nil"

\* The extensions of symbol files.
SupportedExtensions == {ExtGo, ExtTs, ExtTsx, ExtJs, ExtJsx, ExtPy, ExtSql}

\* C10: FindSymbols never returns a record whose path has an extension
\* outside .go, .ts, .tsx, .js, .jsx, .py, .sql, whatever the file holds, and
\* never opens such a file for its content (the root's ignore file is read
\* for its rules before the traversal, not as a file to search).
C10_UnsupportedFilesUntouched ==
  (pc \in {"walk", "done"} /\ op = "FindSymbols")
    => \A p \in FilePaths :
         Ext(p) \notin SupportedExtensions
           => (RecordsOf(p) = <<>> /\ <<"open", p>> \notin examined)

\* FindSymbols walked past a .txt file holding a function definition whose
\* name matches, returned nothing for it and did return the symbol of a .go file.
C10_Witness ==
  /\ Searched("FindSymbols")
  /\ pattern = PHello
  /\ fs[ATxt] = File(CGoLike)
  /\ ~Ignored(ATxt)
  /\ \E i \in 1..Len(visited) : visited[i] = ATxt
  /\ RecordsOf(ATxt) = <<>>
  /\ RecordsOf(DSGo) # <<>>

\* The record recs[k] is the record of the symbol s: its line, its column and
\* its name as the matched text.
RecordOfSymbol(r, s) == r.Line = s.Line /\ r.Column = s.Column /\ r.Match = s.Name

\* The records recs are those of the symbols syms whose name the compiled
\* pattern atoms matches: every such symbol has its record, and every record
\* is that of a symbol whose name matches.
RecordsAreMatchingSymbols(recs, syms, atoms) ==
  /\ \A i \in 1..Len(syms) :
       MatchString(atoms, syms[i].Name)
         <=> \E k \in 1..Len(recs) : RecordOfSymbol(recs[k], syms[i])
  /\ \A k \in 1..Len(recs) :
       \E i \in 1..Len(syms) : RecordOfSymbol(recs[k], syms[i])

\* C11: FindSymbols returns a record for an extracted symbol exactly when the
\* pattern matches the symbol's name, and the record's Match is that name; a
\* pattern that matches only other text of the defining line gives no record.
C11_RecordIffNameMatches ==
  Searched("FindSymbols")
    => \A p \in FilePaths :
         OwesRecords(p)
           => RecordsAreMatchingSymbols(RecordsOf(p), extractSymbols(p, fs[p]).symbols, re)

\* FindSymbols searched m.py for "hello": the function hello of line 1 has its
\* record, and the variable x of line 2, whose defining line holds "hello"
\* while its name does not, has none.
C11_Witness ==
  /\ Searched("FindSymbols")
  /\ pattern = PHello
  /\ OwesRecords(MPy)
  /\ Len(extractSymbols(MPy, fs[MPy]).symbols) = 2
  /\ Len(RecordsOf(MPy)) = 1
  /\ RecordsOf(MPy)[1].Match = B(<<"h","e","l","l","o">>)
  /\ RecordsOf(MPy)[1].Line = 1

----------------------------------------------------------------------------
(* Properties of the Mutator *)

\* sub occurs in s.
Occurs(sub, s) == IndexOf(s, sub) # 0

\* An end of a is a start of b.
Borders(a, b) ==
  \E n \in 1..Min(Len(a), Len(b)) : SubSeq(a, Len(a) - n + 1, Len(a)) = SubSeq(b, 1, n)

\* Disjoint literal strings: neither is empty, neither occurs in the other
\* and no end of one is a start of the other, so that no occurrence of one
\* can share bytes with an occurrence of the other.
Disjoint(P, R) ==
  /\ P # <<>> /\ R # <<>>
  /\ ~Occurs(P, R) /\ ~Occurs(R, P)
  /\ ~Borders(P, R) /\ ~Borders(R, P)

\* Find(root, P) returned, and the call before it was Replace(root, P, R) with
\* P and R disjoint literal strings.
SearchedAfterReplace ==
  /\ pc = "done" /\ op = "Find"
  /\ last.op = "Replace" /\ last.pattern = pattern
  /\ Disjoint(last.pattern, last.repl)

\* The files of the tree.
IsFile(p) == p \in FilePaths /\ fs[p].kind = "file"

\* C12 as stated: for disjoint literal strings P and R and any tree,
\* Replace(root, P, R) followed by Find(root, P) returns no match.
C12_NoMatchAfterReplace == SearchedAfterReplace => results = <<>>

\* C12: for disjoint literal strings P and R and any tree whose ignore file
\* Replace(root, P, R) left as it was, Replace(root, P, R) followed by
\* Find(root, P) returns no match.
C12_NoMatchAfterReplaceKeepingIgnoreFile ==
  (SearchedAfterReplace /\ fs[GitignorePath] = last.before[GitignorePath])
    => results = <<>>

\* Replace(root, "hello", "hi") rewrote a.txt, which held "hello" on two
\* lines, and Find(root, "hello") then read a.txt and found nothing.
C12_Witness ==
  /\ SearchedAfterReplace
  /\ pattern = LHello
  /\ fs[GitignorePath] = last.before[GitignorePath]
  /\ last.before[ATxt] = File(CHello)
  /\ fs[ATxt] # last.before[ATxt]
  /\ <<"open", ATxt>> \in examined
  /\ results = <<>>

\* Replace(root, R, P) returned, and the call before it was Replace(root, P, R)
\* with P and R disjoint literal strings.
ReplacedBack ==
  /\ pc = "done" /\ op = "Replace"
  /\ last.op = "Replace" /\ last.pattern = repl /\ last.repl = pattern
  /\ Disjoint(last.pattern, last.repl)

\* The bytes of the file at p in tree t.
BytesAt(t, p) == Expand(t[p].content)

\* Every file of tree t has the bytes it has in tree u.
SameBytes(t, u) ==
  \A p \in FilePaths : t[p].kind = u[p].kind /\ BytesAt(t, p) = BytesAt(u, p)

\* No file of tree t holds one of the bytes bs.
HoldsNone(t, bs) ==
  \A p \in FilePaths : \A i \in 1..Len(t[p].content) : t[p].content[i][1] \notin bs

BytesOf(s) == {s[i] : i \in 1..Len(s)}

Replaced == pc = "done" /\ op = "Replace" /\ err = "nil"

\* The path or a directory above it matches the ignore rules of the call.
IgnoredOrUnder(p) == \E k \in 1..Len(p) : Ignored(SubSeq(p, 1, k))

\* The lines of the file at p in tree t.
LinesAt(t, p) == [i \in DOMAIN SplitNL(t[p].content) |-> Expand(SplitNL(t[p].content)[i])]

\* The numbers of the lines of p that differ between trees t and u.
ModifiedLines(t, u, p) ==
  {i \in DOMAIN LinesAt(t, p) \cup DOMAIN LinesAt(u, p) :
     \/ i \notin DOMAIN LinesAt(t, p)
     \/ i \notin DOMAIN LinesAt(u, p)
     \/ LinesAt(t, p)[i] # LinesAt(u, p)[i]}

\* The Change Records recs are one per line of ms, in line order, each with
\* the line as it was and as it is.
OnePerModifiedLine(recs, ms, was, is) ==
  /\ Len(recs) = Cardinality(ms)
  /\ \A k \in 1..Len(recs) :
       /\ recs[k].Line \in ms
       /\ recs[k].Before = was[recs[k].Line]
       /\ recs[k].After = is[recs[k].Line]
       /\ \A j \in 1..(k - 1) : recs[j].Line < recs[k].Line

\* C14: Replace rewrites a file only if one of its lines changed: a file with
\* no matching line, an ignored file and a binary file are as they were after
\* the call, and the Change Records are exactly one per modified line of each
\* file, however many occurrences were replaced on the line.
C14_RewrittenOnlyIfChanged ==
  Replaced
    => \A p \in FilePaths :
         /\ (\/ \A i \in DOMAIN LinesAt(before, p) : ~MatchString(re, LinesAt(before, p)[i])
             \/ IgnoredOrUnder(p)
             \/ NulInPrefix(before[p].content))
              => fs[p] = before[p]
         /\ OnePerModifiedLine(RecordsOf(p), ModifiedLines(before, fs, p),
                               LinesAt(before, p), LinesAt(fs, p))

\* Replace(root, "hello", "hi") changed lines 1 and 3 of a.txt, line 1 holding
\* "hello" twice, and returned two Change Records for it; it left the ignored
\* d/k.txt, which holds "hello", as it was.
C14_Witness ==
  /\ Replaced
  /\ pattern = LHello /\ repl = LHi
  /\ before[ATxt] = File(CHello)
  /\ Len(RecordsOf(ATxt)) = 2
  /\ RecordsOf(ATxt)[1].After = B(<<"o","h"," ","h","i"," ","h","i">>)
  /\ RecordsOf(ATxt)[2].Line = 3
  /\ IgnoredOrUnder(DKTxt)
  /\ fs[DKTxt] = before[DKTxt]

\* ReplaceSymbol returned its Change Records.
Renamed == pc = "done" /\ op = "ReplaceSymbol" /\ err = "nil"

\* The identifiers of a line: its longest runs of word bytes.
Tokens(line) ==
  {SubSeq(line, x[1], x[2]) : x \in
     {y \in (1..Len(line)) \X (1..Len(line)) :
        /\ y[1] <= y[2]
        /\ \A k \in y[1]..y[2] : line[k] \in WordBytes
        /\ (y[1] = 1 \/ line[y[1] - 1] \notin WordBytes)
        /\ (y[2] = Len(line) \/ line[y[2] + 1] \notin WordBytes)}}

\* The symbols extracted from the file at p in tree t.
SymbolsAt(t, p) == extractSymbols(p, t[p]).symbols

\* Every definition of old among the symbols was is a definition of new, of
\* the same kind on the same line, among the symbols is.
DefinitionsRenamed(was, is, old, new) ==
  \A i \in 1..Len(was) :
     was[i].Name = old
       => \E j \in 1..Len(is) :
            is[j].Name = new /\ is[j].Line = was[i].Line /\ is[j].Kind = was[i].Kind

\* Line by line, the identifiers are those of before with old turned into
\* new: old is gone, and every other identifier is where it was.
TokensRenamed(was, is, old, new) ==
  /\ DOMAIN was = DOMAIN is
  /\ \A i \in DOMAIN was :
       /\ old \notin Tokens(is[i])
       /\ Tokens(is[i]) \ {new} = Tokens(was[i]) \ {old, new}
       /\ old \in Tokens(was[i]) => new \in Tokens(is[i])

\* The file at p defined the name ReplaceSymbol was called with.
DefinedOldName(p) == IsSupportedSymbolFile(p) /\ Defines(SymbolsAt(before, p), pattern)

\* What the claim says of the file at p.
RenamedIn(p) ==
  /\ DefinitionsRenamed(SymbolsAt(before, p), SymbolsAt(fs, p), pattern, repl)
  /\ TokensRenamed(LinesAt(before, p), LinesAt(fs, p), pattern, repl)

----------------------------------------------------------------------------
(* Properties of the Glob Engine *)

\* The records are one for each path of the set S and for no other path,
\* each with Line, Column and Match at their zero values.
OneZeroRecordFor(S) ==
  /\ {results[i].Path : i \in 1..Len(results)} = S
  /\ Len(results) = Cardinality(S)
  /\ \A i \in 1..Len(results) :
       results[i].Line = 0 /\ results[i].Column = 0 /\ results[i].Match = <<>>

\* No file was opened for its content.
NoContentRead == \A p \in Tree : <<"open", p>> \notin examined

\* The paths below the root of the given kind that the ignore rules do not
\* exclude and whose full path the pattern matches.
MatchingPaths(kind) ==
  {p \in Tree \ {RootPath} :
     fs[p].kind = kind /\ ~IgnoredOrUnder(p) /\ MatchString(re, FullPath(p))}

\* What the claim says of the operation o, S being the paths it is to return.
GlobReturns(o, S) == Searched(o) => (OneZeroRecordFor(S) /\ NoContentRead)

\* C16 as stated: GlobFiles returns exactly the non-ignored regular files,
\* and GlobDirectories exactly the non-ignored directories, whose full path
\* matches the pattern, with Line, Column and Match zero, reading no content.
C16_GlobExactlyMatching ==
  /\ GlobReturns("GlobFiles", MatchingPaths("file"))
  /\ GlobReturns("GlobDirectories", MatchingPaths("dir"))

\* C16: GlobFiles returns exactly the non-ignored regular files, and
\* GlobDirectories exactly the non-ignored directories, that the traversal
\* reaches (every directory above them can be searched, and a directory
\* itself can be listed) and whose full path matches the pattern, with Line,
\* Column and Match zero, reading no content.
C16_GlobExactlyReachedMatching ==
  /\ GlobReturns("GlobFiles", {p \in MatchingPaths("file") : Accessible(p)})
  /\ GlobReturns("GlobDirectories", {p \in MatchingPaths("dir") : ListOk(p)})

\* GlobFiles(root, "d") returned d/k.txt and d/s.go, whose base names hold no
\* "d", and not a.txt; it returned d/k.txt although the file cannot be read.
C16_Witness ==
  /\ Searched("GlobFiles")
  /\ pattern = PD
  /\ fs[DKTxt] = Unreadable(CK)
  /\ RecordsOf(DKTxt) = PathResult(DKTxt)
  /\ RecordsOf(DSGo) = PathResult(DSGo)
  /\ RecordsOf(ATxt) = <<>>
  /\ NoContentRead

----------------------------------------------------------------------------
(* Properties of FormatEmacsOutput *)

\* FormatEmacsOutput returned.
Formatted == pc = "done" /\ op = "FormatEmacsOutput"

\* The positions of the newline bytes of s.
Newlines(s) == {i \in 1..Len(s) : s[i] = NL}

\* The k-th newline-terminated line of s, without its newline.
TerminatedLine(s, k) ==
  SubSeq(s, IF k = 1 THEN 1 ELSE Nth(Newlines(s), k - 1) + 1, Nth(Newlines(s), k) - 1)

\* The value of a string of decimal digits.
RECURSIVE Value(_)
Value(d) ==
  IF d = <<>> THEN 0 ELSE 10 * Value(SubSeq(d, 1, Len(d) - 1)) + (d[Len(d)] - Code["0"])

\* The decimal numerals of up to three digits, without a needless leading 0.
Numerals ==
  {d \in UNION {[1..n -> (Code["0"])..(Code["0"] + 9)] : n \in 1..3} :
     Len(d) = 1 \/ d[1] # Code["0"]}

\* The line is path:line:column: matchedText of the record r.
IsLineOf(line, r) ==
  \E l \in {d \in Numerals : Value(d) = r.Line} :
    \E c \in {d \in Numerals : Value(d) = r.Column} :
       line = r.Path \o B(<<":">>) \o l \o B(<<":">>) \o c \o B(<<":"," ">>) \o r.Match

\* s is exactly one newline-terminated line per record of rs, in their order.
OneLinePerRecord(s, rs) ==
  /\ Cardinality(Newlines(s)) = Len(rs)
  /\ (s = <<>> \/ s[Len(s)] = NL)
  /\ \A k \in 1..Len(rs) : IsLineOf(TerminatedLine(s, k), rs[k])

\* No newline byte in the path or the matched text of a record of rs.
SingleLine(rs) ==
  \A k \in 1..Len(rs) : NL \notin BytesOf(rs[k].Path) \cup BytesOf(rs[k].Match)

\* C17 as stated: FormatEmacsOutput maps n records to exactly n
\* newline-terminated lines path:line:column: matchedText, in the order of
\* the records, equal records included, and no record to the empty string.
C17_OneLinePerAnyRecord == Formatted => OneLinePerRecord(output, results)

\* C17: FormatEmacsOutput maps n records whose paths and matched texts hold
\* no newline to exactly n newline-terminated lines
\* path:line:column: matchedText, in the order of the records, equal records
\* included, and no record to the empty string.
C17_OneLinePerRecord ==
  (Formatted /\ SingleLine(results)) => OneLinePerRecord(output, results)

\* FormatEmacsOutput was given the same record twice and another one after
\* them, and returned three lines.
C17_Witness ==
  /\ Formatted
  /\ results = <<RHi, RHi, RFar>>
  /\ output = B(<<"a",":">>) \o <<49>> \o B(<<":","0",":"," ","h","i">>) \o <<NL>>
                \o B(<<"a",":">>) \o <<49>> \o B(<<":","0",":"," ","h","i">>) \o <<NL>>
                \o B(<<"d","/","k",":">>) \o <<49>> \o B(<<"2",":">>) \o <<49>>
                \o B(<<"0">>) \o <<53>> \o B(<<":"," ","x",":","y">>) \o <<NL>>

----------------------------------------------------------------------------
(* Properties of repeated searches *)

\* Trees t and u hold the same entries with the same permissions and bytes.
SameTree(t, u) ==
  /\ DOMAIN t = DOMAIN u
  /\ \A p \in DOMAIN t : t[p].kind = u[p].kind /\ t[p].perm = u[p].perm
  /\ \A p \in DOMAIN t : Expand(t[p].content) = Expand(u[p].content)

\* Find or FindSymbols returned, and the caller remembers an earlier call of
\* the same operation with the same pattern on a tree equal to this one.
CalledAgain ==
  /\ pc = "done"
  /\ op \in {"Find", "FindSymbols"}
  /\ memo.op = op
  /\ memo.pattern = pattern
  /\ memo.rootStat = rootStat
  /\ SameTree(memo.fs, fs)

\* C18: two calls of Find, or of FindSymbols, with the same root and pattern
\* on the same tree return the same result sequence and the same error,
\* whichever operations were called before and between them.
C18_SameCallSameResult ==
  CalledAgain => (results = memo.results /\ err = memo.err)

\* Find returned records a second time; between the remembered call and this
\* one two calls of Replace rewrote the tree and restored it.
C18_Witness ==
  /\ CalledAgain
  /\ op = "Find"
  /\ results # <<>>
  /\ memo.writes = 0
  /\ writes = MaxWrites
  /\ last.op = "Replace"
  /\ ~SameTree(last.before, fs)

----------------------------------------------------------------------------
(* Properties of run *)

\* "usage: vtk <command>"
UsageText ==
  B(<<"u","s","a","g","e",":"," ","v","t","k"," ">>)
    \o <<60>>
    \o B(<<"c","o","m","m","a","n","d">>)
    \o <<62>>

\* "unknown command"
UnknownCommandText ==
  B(<<"u","n","k","n","o","w","n"," ","c","o","m","m","a","n">>)
    \o B(<<"d">>)

\* run returned.
RunReturned == pc = "done" /\ op = "run"

\* run was called with a first argument that no case of the switch names.
UnrecognisedCommand == Len(args) >= 2 /\ args[2] \notin Commands

\* run was called without a command argument.
NoCommand == Len(args) < 2

\* run returned an error whose text contains t.
ReturnedErrorWith(t) == err # "nil" /\ Occurs(t, output)

\* C19: a call of run with a first argument that is not a recognised command
\* returns an error whose text contains "unknown command", a call without a
\* command argument returns an error whose text contains
\* "usage: vtk <command>", and no subcommand is executed in either case.
C19_RoutingErrors ==
  RunReturned =>
    /\ UnrecognisedCommand => (ReturnedErrorWith(UnknownCommandText) /\ ran = "none")
    /\ NoCommand => (ReturnedErrorWith(UsageText) /\ ran = "none")

----------------------------------------------------------------------------
(* Properties of the traversal *)

\* The rule set holds a rule, not a negation, that excludes the directory p:
\* the matcher gives the path as matching, or a trailing-slash rule names it.
DirectoryMatchesRule(p) ==
  /\ ~gi.nil
  /\ \/ MatchesPath(gi.rules, p)
     \/ \E i \in 1..Len(gi.rules) :
           /\ gi.rules[i].dirOnly
           /\ ~gi.rules[i].negate
           /\ CoreMatch(gi.rules[i].core, 1, Base(p), 1)

\* The directories the walk has come to whose paths match an ignore rule.
MatchedDirectories ==
  {visited[i] : i \in {j \in 1..Len(visited) :
                         /\ visited[j] # RootPath
                         /\ IsDirAt(visited[j])
                         /\ DirectoryMatchesRule(visited[j])}}

\* C20: during a Find or FindSymbols traversal, once the path of a directory
\* matches an ignore rule, the walker never visits an entry beneath that
\* directory, and no record of the results lies beneath it, whatever other
\* rules, a later negation naming a file below it included, the ignore file
\* holds.
C20_MatchedDirectoryPruned ==
  (pc \in {"walk", "done"} /\ op \in {"Find", "FindSymbols"})
    => \A d \in MatchedDirectories :
          /\ \A i \in 1..Len(visited) : ~IsUnder(visited[i], d)
          /\ \A i \in 1..Len(results) : ~IsUnder(results[i].Path, d)

----------------------------------------------------------------------------
(* Properties of the records *)

\* The lines the file at p is read as: the pieces between its newline bytes.
LinesRead(p) == ScanPieces(fs[p].content)

\* The record r lies within the lines: its Line numbers one of them and its
\* Column is a byte offset within that line.
WithinLines(r, lines) ==
  /\ r.Line \in 1..Len(lines)
  /\ r.Column \in 0..Len(Expand(lines[r.Line]))

\* The pattern matches the line at byte offset r.Column.
MatchAtColumn(r, line) == r.Column + 1 \in MatchPositions(re, line)

\* The name of the symbol lies in the line at byte offset r.Column.
NameAtColumn(r, line) == SubSeq(line, r.Column + 1, r.Column + Len(r.Match)) = r.Match

\* C21: every record of Find and FindSymbols has 1 <= Line <= the number of
\* newline-delimited lines of its file and 0 <= Column <= the byte length of
\* that line, Column being a count of bytes: the match of Find and the name
\* of FindSymbols lie at that byte offset of the line.
C21_LineAndColumnWithinFile ==
  (pc \in {"walk", "done"} /\ op \in {"Find", "FindSymbols"})
    => \A i \in 1..Len(results) :
          /\ WithinLines(results[i], LinesRead(results[i].Path))
          /\ IF op = "Find"
             THEN MatchAtColumn(results[i],
                                DropCR(Expand(LinesRead(results[i].Path)[results[i].Line])))
             ELSE NameAtColumn(results[i],
                               Expand(LinesRead(results[i].Path)[results[i].Line]))

\* Find returned a record whose Column is greater than the number of
\* characters before the match: the line starts with a two-byte character.
C21_Witness ==
  /\ Searched("Find")
  /\ \E i \in 1..Len(results) :
        /\ results[i].Path = ATxt
        /\ results[i].Line = 1
        /\ results[i].Column = 3
        /\ Chars(SubSeq(results[i].Match, 1, results[i].Column)) = 2

----------------------------------------------------------------------------
(* Properties of the recognisers *)

\* extractSymbols returned.
Extracted == pc = "done" /\ op = "extractSymbols"

\* The lines of the file extractSymbols was called on.
ExtractedLines == SplitNL(before[file].content)

\* Two of the symbols have the same Line.
TwoOnOneLine(syms) ==
  \E i \in 1..Len(syms) : \E j \in 1..Len(syms) : i # j /\ syms[i].Line = syms[j].Line

\* The line satisfies the pattern of the block: the expression matches and
\* the text that disables the block is not in the line.
Satisfies(line, block) ==
  /\ FindSubmatch(block.re, line) # <<>>
  /\ (block.unless = <<>> \/ ~Occurs(block.unless, line))

\* Every block contributes on every line on its own account: a symbol of its
\* kind on that line, with the captured name, exactly when the line satisfies
\* its pattern.
EveryBlockOnEveryLine(syms, blocks, lines) ==
  \A i \in 1..Len(lines) : \A j \in 1..Len(blocks) :
     Satisfies(Expand(lines[i]), blocks[j])
       <=> \E k \in 1..Len(syms) :
              /\ syms[k].Line = i
              /\ syms[k].Kind = blocks[j].kind
              /\ syms[k].Name = FindSubmatch(blocks[j].re, Expand(lines[i]))[1]

\* C22 as stated: for at least one language family there is a line that
\* satisfies two of the family's category patterns and yields two records
\* with the same Line.
C22_SomeLineYieldsTwoRecords ==
  \E ext \in SupportedExtensions : \E c \in SymbolContents :
     TwoOnOneLine(extractSymbols(SymbolFile(ext), File(c)).symbols)

\* C22: each recogniser applies every one of its category patterns to every
\* line, a line contributing one symbol for each pattern it satisfies; the
\* patterns of a family exclude one another, so no two symbols of a file have
\* the same Line.
C22_OneRecordPerSatisfiedPattern ==
  Extracted =>
    /\ EveryBlockOnEveryLine(results, BlocksFor(Ext(file)), ExtractedLines)
    /\ ~TwoOnOneLine(results)

\* The Go recogniser read "type func struct {": the line holds the keywords
\* of two categories and gave the one symbol of the type pattern.
C22_Witness ==
  /\ Extracted
  /\ file = SymbolFile(ExtGo)
  /\ before[file].content = SGoTypeFunc
  /\ Len(results) = 1
  /\ results[1].Kind = "type"
  /\ results[1].Name = B(<<"f","u","n","c">>)

----------------------------------------------------------------------------
(* Properties of the order of the results *)

\* The first place at which the paths p and q differ.
FirstDifference(p, q) == Least({k \in 1..Min(Len(p), Len(q)) : p[k] # q[k]})

\* The file p comes before the file q in a depth-first traversal that takes
\* the entries of each directory in lexical name order.
WalkBefore(p, q) == NameLess(p[FirstDifference(p, q)], q[FirstDifference(p, q)])

\* The record r comes before the record s: an earlier line of the same
\* file, or a file earlier in the traversal.
RecordBefore(r, s) ==
  IF r.Path = s.Path THEN r.Line < s.Line ELSE WalkBefore(r.Path, s.Path)

\* C23: in the result sequence of Find the records of one file are
\* contiguous and in strictly increasing Line order, no two records sharing
\* Path and Line, and the files come in traversal order: depth-first, the
\* entries of each directory in lexical name order.
C23_RecordsInTraversalOrder ==
  (pc \in {"walk", "done"} /\ op = "Find")
    => \A i \in 1..Len(results) : \A j \in 1..Len(results) :
          i < j => RecordBefore(results[i], results[j])

\* Find returned two records of a.txt, then records of the two files of d,
\* then two records of m.py.
C23_Witness ==
  /\ Searched("Find")
  /\ [i \in 1..Len(results) |-> results[i].Path] = <<ATxt, ATxt, DKTxt, DSGo, MPy, MPy>>
  /\ [i \in 1..Len(results) |-> results[i].Line] = <<1, 3, 1, 2, 1, 2>>

----------------------------------------------------------------------------
(* Properties of a scan that fails *)

\* The scan of the file at p fails part-way: Find reaches the file, opens
\* it, and one of its lines does not fit the line scanner's buffer.
ScanFails(p) ==
  /\ ReadableFile(p)
  /\ ~Ignored(p)
  /\ ~NulInPrefix(fs[p].content)
  /\ ~NoLongLine(fs[p].content)

\* C24: when the scan of a file fails part-way, Find returns no record of
\* that file, the matches on its earlier lines included, a nil error, and
\* the records of every other file.
C24_FailedScanGivesNoRecord ==
  Searched("Find") =>
    \A p \in FilePaths :
       ScanFails(p) =>
         /\ RecordsOf(p) = <<>>
         /\ err = "nil"
         /\ \A q \in FilePaths \ {p} : OwesRecords(q) => RecordsOf(q) = OwedRecords(q)

\* Find read a.txt, whose first line matches and whose second line is too
\* long for the scanner, and returned records of other files only.
C24_Witness ==
  /\ Searched("Find")
  /\ pattern = PHello
  /\ fs[ATxt].content = CLong
  /\ ScanFails(ATxt)
  /\ <<"open", ATxt>> \in examined
  /\ RecordsOf(ATxt) = <<>>
  /\ RecordsOf(DKTxt) # <<>>
  /\ RecordsOf(MPy) # <<>>
  /\ err = "nil"

----------------------------------------------------------------------------
(* Properties of FindSymbols on binary files *)

\* A symbol file the traversal reaches and reads, not ignored, that the
\* binary detector takes for binary.
BinarySymbolFile(p) ==
  /\ ReadableFile(p)
  /\ ~Ignored(p)
  /\ IsSupportedSymbolFile(p)
  /\ NulInPrefix(fs[p].content)

\* C25: FindSymbols does not consult the binary detector: a non-ignored file
\* with a supported extension and a NUL byte in its first 512 bytes gives
\* the records of its symbols as any other file does, while Find gives no
\* record of it.
C25_SymbolsOfBinaryFiles ==
  (pc = "done" /\ op \in {"Find", "FindSymbols"} /\ pattern \notin InvalidPatterns
     /\ rootStat = "ok")
    => \A p \in FilePaths :
          BinarySymbolFile(p) =>
            RecordsOf(p) = (IF op = "FindSymbols"
                            THEN SymbolResults(p, extractSymbols(p, fs[p]).symbols, 1)
                            ELSE <<>>)

\* FindSymbols returned the function hello of d/s.go, which holds a NUL byte
\* on its first line.
C25_Witness ==
  /\ Searched("FindSymbols")
  /\ pattern = PHello
  /\ fs[DSGo].content = CGoNul
  /\ BinarySymbolFile(DSGo)
  /\ RecordsOf(DSGo) = <<[Path |-> DSGo, Line |-> 1, Column |-> 5, Match |-> PHello]>>

----------------------------------------------------------------------------
(* Properties of the column of a symbol *)

\* The offsets at which name lies in line.
Occurrences(name, line) ==
  {k \in 0..(Len(line) - Len(name)) : SubSeq(line, k + 1, k + Len(name)) = name}

\* The offset at which the expression elems, matching line from position
\* pos, captures its word.
RECURSIVE CaptureOffset(_, _, _)
CaptureOffset(elems, line, pos) ==
  IF Head(elems).cap THEN pos - 1
  ELSE CaptureOffset(Tail(elems), line, StepEnd(Head(elems), line, pos))

\* The block of the recogniser that gives symbols of the kind.
BlockOfKind(blocks, kind) == blocks[CHOOSE j \in 1..Len(blocks) : blocks[j].kind = kind]

\* The symbol s of the line: its name lies at Column, no occurrence of the
\* name lies before Column, and Column is not after the offset at which the
\* expression of its kind captured the name.
ColumnIsFirstOccurrence(s, line, blocks) ==
  /\ s.Column \in Occurrences(s.Name, line)
  /\ \A k \in Occurrences(s.Name, line) : s.Column <= k
  /\ s.Column <= CaptureOffset(BlockOfKind(blocks, s.Kind).re, line, 1)

\* C26: for every symbol a recogniser returns, the bytes of the defining line
\* at Column are the name, Column is the offset of the first occurrence of
\* the name in the line, and it is less than or equal to the offset at which
\* the expression captured the name.
C26_ColumnIsFirstOccurrence ==
  Extracted =>
    \A i \in 1..Len(results) :
       ColumnIsFirstOccurrence(results[i], Expand(ExtractedLines[results[i].Line]),
                               BlocksFor(Ext(file)))

\* The Go recogniser read "func f() {}": the name f is captured at offset 5
\* and the symbol has Column 0, the f of func.
C26_Witness ==
  /\ Extracted
  /\ file = SymbolFile(ExtGo)
  /\ before[file].content = SGoNameInKeyword
  /\ Len(results) = 1
  /\ results[1].Name = B(<<"f">>)
  /\ results[1].Column = 0
  /\ CaptureOffset(GoFuncRe, Expand(ExtractedLines[1]), 1) = 5

----------------------------------------------------------------------------
(* Properties of the tree under a search *)

\* A call of Find or FindSymbols is running or has returned.
Searching == pc # "idle" /\ op \in {"Find", "FindSymbols"}

\* C27: Find and FindSymbols are read-only: at every step of a call and when
\* it has returned, with or without an error, every file and directory under
\* the root, the ignore file included, has the content and the entries it
\* had when the call was made.
C27_SearchesLeaveTreeUnchanged == Searching => fs = before

\* FindSymbols returned records on a tree that an earlier Replace had
\* rewritten, and the tree is as it was when FindSymbols was called.
C27_Witness ==
  /\ pc = "done"
  /\ op = "FindSymbols"
  /\ results # <<>>
  /\ writes > 0
  /\ last.op = "Replace"
  /\ ~SameTree(last.before, fs)
  /\ fs = before

----------------------------------------------------------------------------
(* Trees with symbolic links: d/k.txt and d/s.go as links to the root, to  *)
(* their own directory, to a file elsewhere or to themselves               *)

LinkTrees ==
  {MkFs("rwx", ign, File(CHello), "rwx", k, sg) :
     ign \in {Absent, File(IgnD)},
     k \in {File(CK), Symlink(RootPath), Symlink(DDir), Symlink(ATxt), Symlink(DKTxt)},
     sg \in {File(CGo), Symlink(RootPath), Symlink(DDir), Symlink(MPy)}}

InitLinks == rootStat = "ok" /\ fs \in LinkTrees /\ Fresh

\* The steps of a called Find or FindSymbols
SearchStep == CompilePattern \/ StatRoot \/ LoadIgnore \/ WalkStep \/ WalkDone

NextLinks ==
  \/ \E o \in {"Find", "FindSymbols"} : \E p \in {PHello, PFunc, PBad} : Call(o, p)
  \/ SearchStep
  \/ Return

\* WalkStep can be taken: ENABLED <<WalkStep>>_vars, every call of the
\* callback adding a path to visited.
WalkStepEnabled == pc = "walk" /\ todo # <<>>

\* WF_vars(WalkStep), with ENABLED <<WalkStep>>_vars written as the state
\* predicate it is equal to.
FairWalkStep == []<>(~WalkStepEnabled) \/ []<><<WalkStep>>_vars

\* A called function runs on: each of its steps is taken once it can be.
SpecLinks ==
  /\ InitLinks
  /\ [][NextLinks]_vars
  /\ WF_vars(CompilePattern)
  /\ WF_vars(StatRoot)
  /\ WF_vars(LoadIgnore)
  /\ FairWalkStep
  /\ WF_vars(WalkDone)

----------------------------------------------------------------------------
(* C28 *)

\* The call is under way.
Running == pc \in {"compile", "stat", "ignore", "walk"}

\* No directory on the way to p is a symbolic link.
NotThroughLink(p) ==
  \A k \in 0..(Len(p) - 1) : LstatNode(SubSeq(p, 1, k)).kind # "symlink"

\* The callback was called once at most for each entry of the tree.
EachEntryOnce ==
  \A i, j \in 1..Len(visited) : Real(visited[i]) = Real(visited[j]) => i = j

NoRecordTwice == \A i, j \in 1..Len(results) : results[i] = results[j] => i = j

\* C28: a call of Find or FindSymbols on a tree with symbolic links, cycles
\* among them, comes to its end; meanwhile the callback is called once at
\* most for each entry of the tree, for no path that leads through a
\* symbolic link, and no record is collected twice.
C28_WalkTerminatesWithoutFollowingLinks ==
  /\ [](op \in {"Find", "FindSymbols"} =>
          /\ EachEntryOnce
          /\ \A i \in 1..Len(visited) : NotThroughLink(visited[i])
          /\ NoRecordTwice)
  /\ (Running ~> pc = "done")

\* Find has returned records from a tree where d/k.txt is a link to d and
\* d/s.go a link to the root, and the callback was called for both links.
C28_Witness ==
  /\ pc = "done"
  /\ op = "Find"
  /\ err = "nil"
  /\ results # <<>>
  /\ fs[DKTxt] = Symlink(DDir)
  /\ fs[DSGo] = Symlink(RootPath)
  /\ \E i, j \in 1..Len(visited) : visited[i] = DKTxt /\ visited[j] = DSGo

----------------------------------------------------------------------------
(* runStedi and RealtimeEligibility.  A body and the output file are plain *)
(* byte sequences.                                                         *)

StatusOK == 200

\* What the API does with a request: the round trip fails (client.Do gives
\* an error), or a response arrives with a status and a body that io.ReadAll
\* reads or fails on.
NoResponse == [arrived |-> FALSE, status |-> 0, body |-> <<>>, readable |-> FALSE]
Response(status, body, readable) ==
  [arrived |-> TRUE, status |-> status, body |-> body, readable |-> readable]

ErrDo == "error while executing api call"
ErrNon200 == "non 200 response from the api"
ErrReadBody == "error reading body"

\* RealtimeEligibility returning "", nil also for a response with another
\* status, against which C29_RequestsInOrderUntilFirstFailure is checked.
RealtimeEligibilityAnyStatus(reply) ==
  IF ~reply.arrived THEN [resp |-> <<>>, err |-> ErrDo, printed |-> <<>>]
  ELSE IF ~reply.readable THEN [resp |-> <<>>, err |-> ErrReadBody, printed |-> <<>>]
  ELSE [resp |-> <<>>, err |-> "nil", printed |-> reply.body \o <<NL>>]

\* RealtimeEligibility(ctx, stediPayerId, subscriber), given what the API
\* does: [resp, err] returned and what fmt.Println wrote to standard output.
RealtimeEligibility(reply) ==
  IF ~reply.arrived THEN [resp |-> <<>>, err |-> ErrDo, printed |-> <<>>]
  ELSE IF reply.status # StatusOK
       THEN [resp |-> <<>>, err |-> ErrNon200, printed |-> <<>>]
  ELSE IF ~reply.readable THEN [resp |-> <<>>, err |-> ErrReadBody, printed |-> <<>>]
  ELSE [resp |-> <<>>, err |-> "nil", printed |-> reply.body \o <<NL>>]

ErrInputCsv == "unable to process input csv"
ErrOutputFile == "unable to open output file"
ErrEligibility == "unable to get stedi realtime eligibility"

\* The rows of subscribers.csv: <<StediPayerID, Subscriber>>
SubscriberRows == {<<"payer1", "ann">>, <<"payer2", "bob">>}
MaxSubscribers == 3
RECURSIVE SeqsUpTo(_, _)
SeqsUpTo(S, n) ==
  IF n = 0 THEN {<<>>}
  ELSE SeqsUpTo(S, n - 1) \cup {Append(q, x) : q \in {r \in SeqsUpTo(S, n - 1) : Len(r) = n - 1}, x \in S}
SubscriberLists == SeqsUpTo(SubscriberRows, MaxSubscribers)

\* Response bodies: {a:0}, a body of two lines, an empty body.
BodyObject == B(<<"{", "a", ":", "0", "}">>)
BodyTwoLines == B(<<"{">>) \o <<NL>> \o B(<<"}">>)
Bodies == {BodyObject, BodyTwoLines, <<>>}
Replies ==
  {NoResponse}
  \cup {Response(StatusOK, b, TRUE) : b \in Bodies}
  \cup {Response(StatusOK, BodyObject, FALSE), Response(201, BodyObject, TRUE),
        Response(500, BodyTwoLines, TRUE)}

InitStedi ==
  /\ rootStat = "ok"
  /\ fs = MkFs("rwx", Absent, File(CHello), "rwx", File(CK), File(CGo))
  /\ Fresh

\* What runStedi does before its loop: the subscribers are loaded (loaded:
\* LoadSubscriberInfoCSV gave no error), then os.Create truncates or creates
\* the output file (created: it gave no error).
StediStart(subs, loaded, created) ==
  IF ~loaded THEN [pc |-> "done", err |-> ErrInputCsv, subscribers |-> <<>>,
                   outputFile |-> stedi.outputFile]
  ELSE IF ~created THEN [pc |-> "done", err |-> ErrOutputFile, subscribers |-> subs,
                         outputFile |-> stedi.outputFile]
  ELSE [pc |-> "request", err |-> "nil", subscribers |-> subs, outputFile |-> FileOf(<<>>)]

CallRunStediWith(s) ==
  /\ pc = "idle"
  /\ pc' = s.pc
  /\ op' = "runStedi"
  /\ err' = s.err
  /\ stedi' = [subscribers |-> s.subscribers, rest |-> s.subscribers, requests |-> <<>>,
               replies |-> <<>>, outputFile |-> s.outputFile, stdout |-> <<>>]
  /\ UNCHANGED <<fs, rootStat, pattern, re, gi, todo, walkErr, results, visited, examined,
                 file, binary, repl, before, last, writes, output, args, dotenv, ran, memo>>

CallRunStedi(subs, loaded, created) == CallRunStediWith(StediStart(subs, loaded, created))

\* One turn of the loop for a request answered by reply, r being what
\* RealtimeEligibility returned: an error ends runStedi, else resp and a
\* newline are written to the output file.
StediTurn(reply, r) ==
  /\ pc' = IF r.err = "nil" THEN pc ELSE "done"
  /\ err' = IF r.err = "nil" THEN err ELSE ErrEligibility
  /\ stedi' = [stedi EXCEPT
                 !.requests = Append(stedi.requests, stedi.rest[1]),
                 !.replies = Append(stedi.replies, reply),
                 !.rest = Tail(stedi.rest),
                 !.stdout = stedi.stdout \o r.printed,
                 !.outputFile = IF r.err = "nil"
                                THEN FileOf(stedi.outputFile.bytes \o r.resp \o <<NL>>)
                                ELSE stedi.outputFile]

StediRequest(reply) ==
  /\ pc = "request"
  /\ op = "runStedi"
  /\ stedi.rest # <<>>
  /\ StediTurn(reply, RealtimeEligibility(reply))
  /\ UNCHANGED <<fs, rootStat, op, pattern, re, gi, todo, walkErr, results, visited, examined,
                 file, binary, repl, before, last, writes, output, args, dotenv, ran, memo>>

\* The loop is over: return nil
StediDone ==
  /\ pc = "request"
  /\ op = "runStedi"
  /\ stedi.rest = <<>>
  /\ pc' = "done"
  /\ UNCHANGED <<fs, rootStat, op, pattern, re, gi, todo, walkErr, results, err, visited,
                 examined, file, binary, repl, before, last, writes, output, args, dotenv,
                 ran, memo, stedi>>

\* The command has ended; the output file stays for the next run.
ReturnStedi ==
  /\ pc = "done"
  /\ op = "runStedi"
  /\ pc' = "idle"
  /\ op' = "none"
  /\ err' = "nil"
  /\ stedi' = [NoStedi EXCEPT !.outputFile = stedi.outputFile]
  /\ UNCHANGED <<fs, rootStat, pattern, re, gi, todo, walkErr, results, visited, examined,
                 file, binary, repl, before, last, writes, output, args, dotenv, ran, memo>>

NextStedi ==
  \/ \E subs \in SubscriberLists : \E loaded, created \in BOOLEAN :
       CallRunStedi(subs, loaded, created)
  \/ \E reply \in Replies : StediRequest(reply)
  \/ StediDone
  \/ ReturnStedi

SpecStedi == InitStedi /\ [][NextStedi]_vars

----------------------------------------------------------------------------
(* C29 *)

\* The request succeeded: HTTP 200 with a readable body.
Succeeded(reply) == reply.arrived /\ reply.status = StatusOK /\ reply.readable

\* The lines of a file of plain bytes, each without its newline; bytes after
\* the last newline are a line too.
RECURSIVE PlainLinesFrom(_, _, _)
PlainLinesFrom(bs, i, cur) ==
  IF i > Len(bs) THEN IF cur = <<>> THEN <<>> ELSE <<cur>>
  ELSE IF bs[i] = NL THEN <<cur>> \o PlainLinesFrom(bs, i + 1, <<>>)
  ELSE PlainLinesFrom(bs, i + 1, Append(cur, bs[i]))
PlainLines(f) == PlainLinesFrom(f.bytes, 1, <<>>)

\* runStedi has loaded the subscribers and created the output file.
StediLooping ==
  op = "runStedi" /\ pc \in {"request", "done"} /\ err \notin {ErrInputCsv, ErrOutputFile}

Successes == {i \in 1..Len(stedi.replies) : Succeeded(stedi.replies[i])}

\* C29: in a run of runStedi the requests issued so far are for the first
\* subscribers of the list, in its order, one reply for each; every request
\* but the last succeeded; once a request has failed runStedi has returned an
\* error with subscribers left unasked; it returns nil only after a request
\* for every subscriber; and the output file holds as many lines as requests
\* succeeded.
C29_RequestsInOrderUntilFirstFailure ==
  StediLooping =>
    /\ Len(stedi.requests) <= Len(stedi.subscribers)
    /\ stedi.requests = SubSeq(stedi.subscribers, 1, Len(stedi.requests))
    /\ stedi.rest = SubSeq(stedi.subscribers, Len(stedi.requests) + 1, Len(stedi.subscribers))
    /\ Len(stedi.replies) = Len(stedi.requests)
    /\ \A i \in 1..(Len(stedi.replies) - 1) : i \in Successes
    /\ (stedi.replies # <<>> /\ Len(stedi.replies) \notin Successes)
         => pc = "done" /\ err = ErrEligibility
    /\ (pc = "done" /\ err = "nil") => Len(stedi.requests) = Len(stedi.subscribers)
    /\ Len(PlainLines(stedi.outputFile)) = Cardinality(Successes)

\* The second of three requests failed with status 500: runStedi returned
\* the error, the third subscriber was not asked and the file holds one line.
C29_Witness ==
  /\ op = "runStedi"
  /\ pc = "done"
  /\ err = ErrEligibility
  /\ Len(stedi.subscribers) = 3
  /\ Len(stedi.requests) = 2
  /\ Succeeded(stedi.replies[1])
  /\ stedi.replies[2].status = 500
  /\ Len(PlainLines(stedi.outputFile)) = 1

----------------------------------------------------------------------------
(* C30 *)

\* C30: the line of the output file written for a request that succeeded is
\* the body of its response.
C30_LineIsResponseBody ==
  StediLooping =>
    \A i \in Successes :
      /\ i <= Len(PlainLines(stedi.outputFile))
      /\ PlainLines(stedi.outputFile)[i] = stedi.replies[i].body

=============================================================================
